---- MODULE Spec2Model ----
(***************************************************************************)
(* Course schedule agent: the time utility, the meeting conflict detector, *)
(* the schedule conflict scanner, the calendar layout engine and the       *)
(* schedule tools (add / remove / view / check) over the D1 tables         *)
(* courses and user_schedules.                                             *)
(*                                                                         *)
(* JavaScript strings that the code takes apart (meeting strings, time     *)
(* strings, course labels, removal keys) are sequences of one-character    *)
(* strings, so that split, includes and the time pattern are computed the  *)
(* way the code computes them.                                             *)
(***************************************************************************)
EXTENDS Integers, Sequences, FiniteSets, TLC

VARIABLES
    catalog,    \* table courses: the set of course rows
    schedule,   \* table user_schedules: rows in rowid order
    reqs,       \* the tool requests in flight, by request slot
    started,    \* number of tool requests started so far
    arg,        \* arguments of a call of a pure helper
    ret         \* its return value

vars == <<catalog, schedule, reqs, started, arg, ret>>

(***************************************************************************)
(* Character-level string helpers (String.prototype.split / includes,      *)
(* parseInt).                                                              *)
(***************************************************************************)
DigitSeq == <<"0", "1", "2", "3", "4", "5", "6", "7", "8", "9">>

DigitChars == {DigitSeq[i] : i \in 1..10}

DigitVal(c) == (CHOOSE i \in 1..10 : DigitSeq[i] = c) - 1

RECURSIVE parseInt(_)
\* parseInt(str, 10) of a string of decimal digits
parseInt(s) ==
    IF Len(s) = 0 THEN 0
    ELSE parseInt(SubSeq(s, 1, Len(s) - 1)) * 10 + DigitVal(s[Len(s)])

includes(s, c) == \E i \in 1..Len(s) : s[i] = c

RECURSIVE split(_, _)
\* s.split(sep) for a one-character separator: the pieces between
\* separators, empty pieces kept
split(s, sep) ==
    IF ~includes(s, sep) THEN <<s>>
    ELSE LET i == CHOOSE k \in 1..Len(s) :
                      s[k] = sep /\ \A l \in 1..(k - 1) : s[l] # sep
         IN  <<SubSeq(s, 1, i - 1)>> \o split(SubSeq(s, i + 1, Len(s)), sep)

\* index of the first non-digit character at or after i (Len(s)+1 if none)
DigitRunEnd(s, i) ==
    IF \E k \in i..Len(s) : s[k] \notin DigitChars
    THEN CHOOSE k \in i..Len(s) :
             s[k] \notin DigitChars /\ \A l \in i..(k - 1) : s[l] \in DigitChars
    ELSE Len(s) + 1

\* the pattern /(\d+):(\d+)(AM|PM)/ matches with its first digit at i
TimeMatchAt(s, i) ==
    LET j == DigitRunEnd(s, i)
        k == DigitRunEnd(s, j + 1)
    IN  /\ j > i
        /\ j <= Len(s)
        /\ s[j] = ":"
        /\ k > j + 1
        /\ k + 1 <= Len(s)
        /\ s[k] \in {"A", "P"}
        /\ s[k + 1] = "M"

\* the capture groups of the match that starts at i: match[1], match[2]
\* and match[3]
TimeGroups(s, i) ==
    LET j == DigitRunEnd(s, i)
        k == DigitRunEnd(s, j + 1)
    IN  [matched |-> TRUE,
         hoursStr |-> SubSeq(s, i, j - 1),
         minutesStr |-> SubSeq(s, j + 1, k - 1),
         period |-> SubSeq(s, k, k + 1)]

\* timeStr.match(/(\d+):(\d+)(AM|PM)/): the leftmost match, or no match
TimeMatch(s) ==
    IF \E i \in 1..Len(s) : TimeMatchAt(s, i)
    THEN TimeGroups(s, CHOOSE k \in 1..Len(s) :
                           TimeMatchAt(s, k) /\ \A l \in 1..(k - 1) : ~TimeMatchAt(s, l))
    ELSE [matched |-> FALSE, hoursStr |-> <<>>, minutesStr |-> <<>>,
          period |-> <<>>]

(***************************************************************************)
(* Time utility.                                                           *)
(***************************************************************************)
\* the body of timeToMinutes after the match: if (!match) return 0, the
\* two parseInt calls and the 12-hour adjustments
minutesOfMatch(match) ==
    IF ~match.matched THEN 0
    ELSE LET hours0 == parseInt(match.hoursStr)
             minutes == parseInt(match.minutesStr)
             hours1 == IF match.period = <<"P", "M">> /\ hours0 # 12
                       THEN hours0 + 12
                       ELSE hours0
             hours == IF match.period = <<"A", "M">> /\ hours1 = 12 THEN 0
                      ELSE hours1
         IN  hours * 60 + minutes

\* a plausible slip: PM adds 12 hours to 12 as well
timeToMinutesPM12(timeStr) ==
    LET match == TimeMatch(timeStr)
    IN  IF ~match.matched THEN 0
        ELSE LET hours0 == parseInt(match.hoursStr)
                 minutes == parseInt(match.minutesStr)
                 hours1 == IF match.period = <<"P", "M">> THEN hours0 + 12
                           ELSE hours0
                 hours == IF match.period = <<"A", "M">> /\ hours1 = 12 THEN 0
                          ELSE hours1
             IN  hours * 60 + minutes

timeToMinutes(timeStr) == minutesOfMatch(TimeMatch(timeStr))

\* the value undefined where a string is expected: the second element of
\* a destructured one-element array
UndefinedStr == <<"<undefined>">>

\* a plausible slip: the `if (!match) return 0` guard is missing, and the
\* destructuring of a null match throws
timeToMinutesRaisesUnmatched(timeStr) ==
    IF timeStr = UndefinedStr THEN TRUE ELSE ~TimeMatch(timeStr).matched

\* timeToMinutes ends with a TypeError: timeStr.match on undefined.  On a
\* string, match, the guard and parseInt do not throw
timeToMinutesRaises(timeStr) ==
    IF timeStr = UndefinedStr THEN TRUE ELSE FALSE

(***************************************************************************)
(* Meeting conflict detector.                                              *)
(***************************************************************************)
\* a plausible slip: only the first day letter of days1 is looked for
daysOverlapFirstDay(days1, days2) ==
    IF days1 = <<>> THEN FALSE ELSE includes(days2, days1[1])

\* days1.split("").some((day) => days2.includes(day))
daysOverlap(days1, days2) == \E i \in 1..Len(days1) : includes(days2, days1[i])

\* a plausible slip: only one half of the interval test
meetingsConflictOneSided(meeting1, meeting2) ==
    LET parts1 == split(meeting1, " ")
        parts2 == split(meeting2, " ")
    IN  IF Len(parts1) < 2 \/ Len(parts2) < 2 THEN FALSE
        ELSE IF ~daysOverlap(parts1[1], parts2[1]) THEN FALSE
        ELSE LET range1 == split(parts1[2], "-")
                 range2 == split(parts2[2], "-")
             IN  IF Len(range1) < 2 \/ Len(range2) < 2 THEN FALSE
                 ELSE timeToMinutes(range1[1]) < timeToMinutes(range2[2])

\* a plausible slip: closed intervals, so that back-to-back meetings clash
meetingsConflictClosed(meeting1, meeting2) ==
    LET parts1 == split(meeting1, " ")
        parts2 == split(meeting2, " ")
    IN  IF Len(parts1) < 2 \/ Len(parts2) < 2 THEN FALSE
        ELSE IF ~daysOverlap(parts1[1], parts2[1]) THEN FALSE
        ELSE LET range1 == split(parts1[2], "-")
                 range2 == split(parts2[2], "-")
             IN  IF Len(range1) < 2 \/ Len(range2) < 2 THEN FALSE
                 ELSE /\ timeToMinutes(range1[1]) <= timeToMinutes(range2[2])
                      /\ timeToMinutes(range2[1]) <= timeToMinutes(range1[2])

\* const [start, end] = time.split("-"): end is undefined without a "-"
endOf(range) == IF Len(range) >= 2 THEN range[2] ELSE UndefinedStr

\* the try block of meetingsConflict: [threw, value]
meetingsConflictTry(meeting1, meeting2) ==
    LET parts1 == split(meeting1, " ")
        parts2 == split(meeting2, " ")
    IN  IF Len(parts1) < 2 \/ Len(parts2) < 2
        THEN [threw |-> FALSE, value |-> FALSE]
        ELSE IF ~daysOverlap(parts1[1], parts2[1])
        THEN [threw |-> FALSE, value |-> FALSE]
        ELSE LET range1 == split(parts1[2], "-")
                 range2 == split(parts2[2], "-")
             IN  IF \/ timeToMinutesRaises(range1[1])
                    \/ timeToMinutesRaises(endOf(range1))
                    \/ timeToMinutesRaises(range2[1])
                    \/ timeToMinutesRaises(endOf(range2))
                 THEN [threw |-> TRUE, value |-> FALSE]
                 ELSE [threw |-> FALSE,
                       value |->
                           /\ timeToMinutes(range1[1]) < timeToMinutes(range2[2])
                           /\ timeToMinutes(range2[1]) < timeToMinutes(range1[2])]

\* a plausible slip: no try / catch around the body
meetingsConflictUncaught(meeting1, meeting2) ==
    [raised |-> meetingsConflictTry(meeting1, meeting2).threw,
     value |-> meetingsConflictTry(meeting1, meeting2).value]

\* } catch (error) { console.error(...); return false; }
caughtFalse(try) ==
    [raised |-> FALSE, value |-> IF try.threw THEN FALSE ELSE try.value]

\* the outcome of a call of meetingsConflict: [raised, value]
meetingsConflictOutcome(meeting1, meeting2) ==
    caughtFalse(meetingsConflictTry(meeting1, meeting2))

meetingsConflict(meeting1, meeting2) ==
    meetingsConflictOutcome(meeting1, meeting2).value

(***************************************************************************)
(* Course rows.  The columns the tools read are id, subject, catalog_nbr,  *)
(* title, section, component, status and meetings.  The meetings column    *)
(* holds JSON text: kind "array" is the text of a JSON list of strings     *)
(* (items), kind "null" is the text null or an SQL NULL, and kind          *)
(* "invalid" is text that is not JSON.                                     *)
(***************************************************************************)
JSONarray(items) == [kind |-> "array", items |-> items]

JSONnull == [kind |-> "null", items |-> <<>>]

JSONinvalid == [kind |-> "invalid", items |-> <<>>]

\* JSON.parse(course.meetings): a SyntaxError on text that is not JSON; the
\* value null is not iterable, so that a for..of over it throws a TypeError
JSONparse(text) ==
    [threw |-> text.kind = "invalid",
     iterable |-> text.kind = "array",
     items |-> text.items]

\* `${course.subject} ${course.catalog_nbr}`
courseKey(course) == course.subject \o <<" ">> \o course.catalog_nbr

\* `${course.subject} ${course.catalog_nbr}: ${course.title}`
courseLabel(course) == courseKey(course) \o <<":", " ">> \o course.title

ConflictsWith ==
    <<" ", "c", "o", "n", "f", "l", "i", "c", "t", "s", " ", "w", "i", "t",
      "h", " ">>

\* the Conflict record pushed for one overlapping pair of meetings
Conflict(course1, course2, meeting1, meeting2) ==
    [course1 |-> courseLabel(course1),
     course2 |-> courseLabel(course2),
     reason |-> meeting1 \o ConflictsWith \o meeting2]

(***************************************************************************)
(* Schedule conflict scanner.  The result is [threw, conflicts]: threw     *)
(* when JSON.parse or the iteration of a parsed value raised.              *)
(***************************************************************************)
RECURSIVE scanMeetings2(_, _, _, _, _, _)
\* for (const meeting2 of meetings2) { if (meetingsConflict(...)) push }
scanMeetings2(course1, course2, meeting1, meetings2, b, acc) ==
    IF b > Len(meetings2) THEN acc
    ELSE scanMeetings2(course1, course2, meeting1, meetings2, b + 1,
             IF meetingsConflict(meeting1, meetings2[b])
             THEN Append(acc, Conflict(course1, course2, meeting1, meetings2[b]))
             ELSE acc)

RECURSIVE scanMeetings1(_, _, _, _, _, _)
\* for (const meeting1 of meetings1) { for (const meeting2 of meetings2) }
scanMeetings1(course1, course2, meetings1, parsed2, a, acc) ==
    IF a > Len(meetings1) THEN [threw |-> FALSE, conflicts |-> acc]
    ELSE IF ~parsed2.iterable THEN [threw |-> TRUE, conflicts |-> acc]
    ELSE scanMeetings1(course1, course2, meetings1, parsed2, a + 1,
             scanMeetings2(course1, course2, meetings1[a], parsed2.items, 1, acc))

\* the body of the two loops for one pair of courses
scanPair(course1, course2, acc) ==
    LET parsed1 == JSONparse(course1.meetings)
        parsed2 == JSONparse(course2.meetings)
    IN  IF parsed1.threw \/ parsed2.threw \/ ~parsed1.iterable
        THEN [threw |-> TRUE, conflicts |-> acc]
        ELSE scanMeetings1(course1, course2, parsed1.items, parsed2, 1, acc)

RECURSIVE scanFrom(_, _, _, _)
\* the loops over i and j = i + 1 .. length - 1 (here positions from 1);
\* r is the outcome so far, and a throw ends the scan
scanFrom(courses, i, j, r) ==
    IF r.threw \/ i > Len(courses) THEN r
    ELSE IF j > Len(courses) THEN scanFrom(courses, i + 1, i + 2, r)
    ELSE scanFrom(courses, i, j + 1,
                  scanPair(courses[i], courses[j], r.conflicts))

\* a plausible slip: the inner loop starts at j = 0, so that every pair is
\* scanned in both orders and a course against itself
RECURSIVE scanFromAll(_, _, _, _)
scanFromAll(courses, i, j, r) ==
    IF r.threw \/ i > Len(courses) THEN r
    ELSE IF j > Len(courses) THEN scanFromAll(courses, i + 1, 1, r)
    ELSE scanFromAll(courses, i, j + 1,
                     scanPair(courses[i], courses[j], r.conflicts))

findConflictsAllPairs(courses) ==
    scanFromAll(courses, 1, 1, [threw |-> FALSE, conflicts |-> <<>>])

\* const conflicts = []; the two loops; return conflicts
findConflicts(courses) ==
    scanFrom(courses, 1, 2, [threw |-> FALSE, conflicts |-> <<>>])

(***************************************************************************)
(* Inputs: times, meeting strings and course rows the checks range over.   *)
(***************************************************************************)
Digits2(n) == <<DigitSeq[(n \div 10) + 1], DigitSeq[(n % 10) + 1]>>

Decimal(n) == IF n < 10 THEN <<DigitSeq[n + 1]>> ELSE Digits2(n)

\* a clock time [h, m, pm, pad] written as h:mmAM / hh:mmPM
TimeStr(t) ==
    (IF t.pad THEN Digits2(t.h) ELSE Decimal(t.h))
        \o <<":">> \o Digits2(t.m)
        \o (IF t.pm THEN <<"P", "M">> ELSE <<"A", "M">>)

T(h, m, pm) == [h |-> h, m |-> m, pm |-> pm, pad |-> TRUE]

\* minutes since midnight of a clock time, as the specification states it
ClockMinutes(t) == ((t.h % 12) + (IF t.pm THEN 12 ELSE 0)) * 60 + t.m

\* chronological order of two clock times within a day
Earlier(t, u) ==
    \/ ~t.pm /\ u.pm
    \/ /\ t.pm = u.pm
       /\ \/ (t.h % 12) < (u.h % 12)
          \/ (t.h % 12) = (u.h % 12) /\ t.m < u.m

SampleMinutes == {0, 1, 10, 59}

ValidTimes ==
    [h : 1..12, m : SampleMinutes, pm : BOOLEAN, pad : BOOLEAN]

\* a meeting [days, start, end] written "<days> <start>-<end>"
MeetingStr(mt) ==
    IF mt.raw # <<>> THEN mt.raw
    ELSE mt.days \o <<" ">> \o TimeStr(mt.start) \o <<"-">> \o TimeStr(mt.end)

Meeting(days, start, end) ==
    [days |-> days, start |-> start, end |-> end, raw |-> <<>>]

\* a meeting string that is not of the form "<days> <start>-<end>"
Raw(str) == [days |-> <<>>, start |-> T(12, 0, FALSE), end |-> T(12, 0, FALSE),
             raw |-> str]

WellFormed(mt) == mt.raw = <<>>

DayPatterns ==
    {<<"M">>, <<"M", "W">>, <<"T", "R">>, <<"F">>, <<"M", "W", "F">>,
     <<"M", "T", "W", "R", "F">>}

MeetingTimes ==
    {T(9, 5, FALSE), T(10, 10, FALSE), T(11, 15, FALSE), T(11, 25, FALSE),
     T(12, 5, TRUE), [T(2, 55, TRUE) EXCEPT !.pad = FALSE]}

WellFormedMeetings ==
    {Meeting(d, s, e) : d \in DayPatterns, s \in MeetingTimes, e \in MeetingTimes}

sTBA == <<"T", "B", "A">>

MalformedMeetings ==
    {Raw(sTBA),
     Raw(<<"M", "W", " ">> \o TimeStr(T(10, 10, FALSE))),
     Raw(<<"M", "W", " ">> \o sTBA \o <<"-">> \o TimeStr(T(11, 0, FALSE))),
     Raw(<<"M", "W", " ">> \o TimeStr(T(10, 10, FALSE)) \o <<"-">> \o sTBA),
     Raw(<<" ">> \o TimeStr(T(10, 10, FALSE)) \o <<"-">>
             \o TimeStr(T(11, 25, FALSE))),
     Raw(<<"M", "W">> \o TimeStr(T(10, 10, FALSE)) \o <<"-">>
             \o TimeStr(T(11, 25, FALSE)))}

MeetingInputs == WellFormedMeetings \cup MalformedMeetings

sCS == <<"C", "S">>
sMATH == <<"M", "A", "T", "H">>
sPHYS == <<"P", "H", "Y", "S">>
sCHEM == <<"C", "H", "E", "M">>
sART == <<"A", "R", "T">>
sMUSIC == <<"M", "U", "S", "I", "C">>
n2110 == <<"2", "1", "1", "0">>
n1920 == <<"1", "9", "2", "0">>
n1112 == <<"1", "1", "1", "2">>
n2070 == <<"2", "0", "7", "0">>
n1100 == <<"1", "1", "0", "0">>

Course(id, subject, nbr, title, section, component, meetings) ==
    [id |-> id, subject |-> subject, catalog_nbr |-> nbr, title |-> title,
     section |-> section, component |-> component, status |-> "O",
     meetings |-> meetings]

cCS_LEC ==
    Course("CS-2110-001", sCS, n2110, <<"O", "O", "P">>, "001", "LEC",
           JSONarray(<<MeetingStr(Meeting(<<"M", "W">>, T(10, 10, FALSE),
                                          T(11, 25, FALSE)))>>))

cCS_DIS ==
    Course("CS-2110-201", sCS, n2110, <<"O", "O", "P">>, "201", "DIS",
           JSONarray(<<MeetingStr(Meeting(<<"F">>, T(9, 5, FALSE),
                                          T(9, 55, FALSE)))>>))

cMATH_LEC ==
    Course("MATH-1920-001", sMATH, n1920, <<"C", "a", "l", "c">>, "001", "LEC",
           JSONarray(<<MeetingStr(Meeting(<<"M", "W">>, T(11, 15, FALSE),
                                          T(12, 5, TRUE)))>>))

cPHYS_LEC ==
    Course("PHYS-1112-001", sPHYS, n1112, <<"M", "e", "c", "h">>, "001", "LEC",
           JSONarray(<<MeetingStr(Meeting(<<"M", "W", "F">>, T(9, 5, FALSE),
                                          T(9, 55, FALSE))),
                       MeetingStr(Meeting(<<"M">>, T(11, 25, FALSE),
                                          T(12, 15, TRUE)))>>))

cCHEM_LAB ==
    Course("CHEM-2070-401", sCHEM, n2070, <<"G", "e", "n">>, "401", "LAB",
           JSONarray(<<MeetingStr(Meeting(<<"M", "W">>, T(9, 5, FALSE),
                                          T(10, 30, FALSE))),
                       MeetingStr(Meeting(<<"F">>, T(9, 0, FALSE),
                                          T(12, 0, TRUE)))>>))

\* a section whose meetings are to be announced or badly written
cART_SEM ==
    Course("ART-1100-101", sART, n1100, <<"I", "n", "k">>, "101", "SEM",
           JSONarray(<<sTBA,
                       <<"M", "W", " ">> \o TimeStr(T(10, 10, FALSE)),
                       <<"M", "W", " ">> \o sTBA \o <<"-">>
                           \o TimeStr(T(11, 0, FALSE))>>))

\* a section without meetings
cMUSIC_IND ==
    Course("MUSIC-1100-601", sMUSIC, n1100, <<"S", "o", "l", "o">>, "601", "IND",
           JSONarray(<<>>))

sECON == <<"E", "C", "O", "N">>
sHIST == <<"H", "I", "S", "T">>
sBIOG == <<"B", "I", "O", "G">>
n1110 == <<"1", "1", "1", "0">>
n1510 == <<"1", "5", "1", "0">>
n1140 == <<"1", "1", "4", "0">>

cECON_LEC ==
    Course("ECON-1110-001", sECON, n1110, <<"M", "i", "c", "r", "o">>, "001",
           "LEC",
           JSONarray(<<MeetingStr(Meeting(<<"T", "R">>, T(1, 25, TRUE),
                                          T(2, 40, TRUE)))>>))

cHIST_LEC ==
    Course("HIST-1510-001", sHIST, n1510, <<"E", "u", "r">>, "001", "LEC",
           JSONarray(<<MeetingStr(Meeting(<<"T", "R">>, T(10, 10, FALSE),
                                          T(11, 25, FALSE)))>>))

cBIOG_LAB ==
    Course("BIOG-1140-401", sBIOG, n1140, <<"B", "i", "o">>, "401", "LAB",
           JSONarray(<<MeetingStr(Meeting(<<"R">>, T(2, 0, TRUE),
                                          T(4, 25, TRUE)))>>))

ScanPool ==
    {cCS_LEC, cCS_DIS, cMATH_LEC, cPHYS_LEC, cCHEM_LAB, cART_SEM, cMUSIC_IND}

MaxScan == 3

(***************************************************************************)
(* The D1 tables and the statements the schedule tools run on them.        *)
(***************************************************************************)
Users == {"u1", "u2"}

\* an omitted optional argument, and the SQL NULL
Undefined == "<undefined>"
SqlNull == "<NULL>"

Catalog0 == {cCS_LEC, cCS_DIS, cMATH_LEC}

\* first() of a SELECT that matched no row
NoCourse == Course("<none>", <<>>, <<>>, <<>>, "", "", JSONnull)

ScheduleRow(userId, courseId, notes) ==
    [user_id |-> userId, course_id |-> courseId, notes |-> notes]

\* SELECT * FROM courses WHERE id = ?  (.first())
SelectCourseById(courses, courseId) ==
    IF \E c \in courses : c.id = courseId
    THEN CHOOSE c \in courses : c.id = courseId
    ELSE NoCourse

\* a plausible slip: a plain INSERT, without the ON CONFLICT clause and
\* without the UNIQUE(user_id, course_id) constraint behind it
InsertSchedule(rows, userId, courseId, notes) ==
    Append(rows, ScheduleRow(userId, courseId, notes))

\* a plausible slip: ON CONFLICT(user_id, course_id) DO NOTHING
UpsertScheduleDoNothing(rows, userId, courseId, notes) ==
    IF \E i \in 1..Len(rows) :
           rows[i].user_id = userId /\ rows[i].course_id = courseId
    THEN rows
    ELSE Append(rows, ScheduleRow(userId, courseId, notes))

\* a plausible slip: the conflict target is course_id alone, so that the
\* rows of every user for the course take the notes
UpsertScheduleAnyUser(rows, userId, courseId, notes) ==
    IF \E i \in 1..Len(rows) : rows[i].course_id = courseId
    THEN [i \in 1..Len(rows) |->
             IF rows[i].course_id = courseId
             THEN [rows[i] EXCEPT !.notes = notes]
             ELSE rows[i]]
    ELSE Append(rows, ScheduleRow(userId, courseId, notes))

\* INSERT INTO user_schedules (user_id, course_id, notes) VALUES (?, ?, ?)
\* ON CONFLICT(user_id, course_id) DO UPDATE SET notes = excluded.notes
UpsertSchedule(rows, userId, courseId, notes) ==
    IF \E i \in 1..Len(rows) :
           rows[i].user_id = userId /\ rows[i].course_id = courseId
    THEN [i \in 1..Len(rows) |->
             IF rows[i].user_id = userId /\ rows[i].course_id = courseId
             THEN [rows[i] EXCEPT !.notes = notes]
             ELSE rows[i]]
    ELSE Append(rows, ScheduleRow(userId, courseId, notes))

\* notes || null
NotesOrNull(notes) == IF notes = Undefined \/ notes = "" THEN SqlNull ELSE notes

RECURSIVE JoinCoursesByRowid(_, _)
\* user_schedules us JOIN courses c ON us.course_id = c.id, the rows of
\* user_schedules taken in the order given: each schedule row with the
\* columns of its course.  A search of idx_user_schedules (user_id) gives
\* the rows of a user in rowid order
JoinCoursesByRowid(rows, courses) ==
    IF rows = <<>> THEN <<>>
    ELSE LET c == SelectCourseById(courses, Head(rows).course_id)
             rest == JoinCoursesByRowid(Tail(rows), courses)
         IN  IF c = NoCourse THEN rest
             ELSE <<[us |-> Head(rows), c |-> c]>> \o rest

\* the user ids and the course ids of the tables in the BINARY collation
\* of the text columns
UserIdOrder == <<"u1", "u2">>

CourseIdOrder ==
    <<"A-1100-001", "ART-1100-101", "B-1100-001", "BIOG-1140-401",
      "CHEM-2070-401", "CS-2110-001", "CS-2110-201", "CS-9999-001",
      "ECON-1110-001", "HIST-1510-001", "LAW-1100-001", "MATH-1920-001",
      "MUSIC-1100-601", "NAVS-1100-401", "PE-1100-001", "PHYS-1112-001">>

IdRank(order, id) == CHOOSE i \in 1..Len(order) : order[i] = id

\* row1 comes before row2 in the index of UNIQUE(user_id, course_id)
IndexBefore(row1, row2) ==
    \/ IdRank(UserIdOrder, row1.user_id) < IdRank(UserIdOrder, row2.user_id)
    \/ /\ row1.user_id = row2.user_id
       /\ IdRank(CourseIdOrder, row1.course_id)
              < IdRank(CourseIdOrder, row2.course_id)

RECURSIVE IndexOrder(_)
\* the rows of user_schedules as a scan of the index of
\* UNIQUE(user_id, course_id) meets them
IndexOrder(rows) ==
    IF rows = <<>> THEN <<>>
    ELSE LET sorted == IndexOrder(SubSeq(rows, 1, Len(rows) - 1))
             last == rows[Len(rows)]
             n == Cardinality({i \in 1..Len(sorted) :
                                  ~IndexBefore(last, sorted[i])})
         IN  SubSeq(sorted, 1, n) \o <<last>> \o SubSeq(sorted, n + 1, Len(sorted))

\* user_schedules us JOIN courses c ON us.course_id = c.id of a SELECT
\* without ORDER BY that reads user_id and course_id only: SQLite answers
\* it from the covering index of UNIQUE(user_id, course_id), so the rows of
\* a user come in course_id order
JoinCourses(rows, courses) == JoinCoursesByRowid(IndexOrder(rows), courses)

\* a plausible slip: the WHERE clause lacks c.id != ?
SelectOtherCoursesWithSelf(rows, courses, userId, courseId) ==
    LET Wanted(j) == j.us.user_id = userId
        joined == SelectSeq(JoinCourses(rows, courses), Wanted)
    IN  [i \in 1..Len(joined) |-> joined[i].c]

\* SELECT c.* FROM user_schedules us JOIN courses c ON us.course_id = c.id
\* WHERE us.user_id = ? AND c.id != ?
SelectOtherCourses(rows, courses, userId, courseId) ==
    LET Wanted(j) == j.us.user_id = userId /\ j.c.id # courseId
        joined == SelectSeq(JoinCourses(rows, courses), Wanted)
    IN  [i \in 1..Len(joined) |-> joined[i].c]

\* a plausible slip: the WHERE clause lacks user_id = ?
DeleteAnyUser(rows, courses, userId, subject, catalogNbr) ==
    LET Kept(row) ==
            ~(\E c \in courses :
                  /\ c.id = row.course_id
                  /\ c.subject = subject
                  /\ c.catalog_nbr = catalogNbr)
    IN  SelectSeq(rows, Kept)

\* DELETE FROM user_schedules WHERE user_id = ? AND course_id IN
\* (SELECT id FROM courses WHERE subject = ? AND catalog_nbr = ?)
DeleteByKey(rows, courses, userId, subject, catalogNbr) ==
    LET Kept(row) ==
            ~(/\ row.user_id = userId
              /\ \E c \in courses :
                     /\ c.id = row.course_id
                     /\ c.subject = subject
                     /\ c.catalog_nbr = catalogNbr)
    IN  SelectSeq(rows, Kept)

(***************************************************************************)
(* Ingestion: the course objects of the request body and the INSERT into   *)
(* courses.  The rows of the model have the columns the tools read; the    *)
(* timestamp columns are not among them.                                   *)
(***************************************************************************)
\* a course object of the body: meetings is a list of strings, or null in
\* a body that does not keep to the interface
CornellCourse(id, subject, catalogNbr, title, section, component, status, meetings) ==
    [id |-> id, subject |-> subject, catalogNbr |-> catalogNbr,
     title |-> title, section |-> section, component |-> component,
     status |-> status, meetings |-> meetings]

MeetingsList(items) == [null |-> FALSE, items |-> items]

MeetingsNull == [null |-> TRUE, items |-> <<>>]

\* JSON.stringify(course.meetings): the text of the list, or the text null
JSONstringify(value) ==
    IF value.null THEN JSONnull ELSE JSONarray(value.items)

\* the row the VALUES clause binds
InsertedRow(course) ==
    [id |-> course.id, subject |-> course.subject,
     catalog_nbr |-> course.catalogNbr, title |-> course.title,
     section |-> course.section, component |-> course.component,
     status |-> course.status, meetings |-> JSONstringify(course.meetings)]

\* the columns of the table courses that schema.sql creates.  Line 25 of the
\* file is one comment from "-- Instructor info" to the end of the line,
\* the column definition "instructors TEXT," included: the table has no
\* column instructors
CoursesColumns ==
    {"id", "subject", "catalog_nbr", "title", "section", "class_nbr",
     "component", "status", "credits", "description", "meetings",
     "prerequisites", "restrictions", "attributes", "notes",
     "text_for_embedding", "created_at", "updated_at"}

\* the columns the INSERT of ingestCourse names
InsertColumns ==
    {"id", "subject", "catalog_nbr", "title", "section", "class_nbr",
     "component", "status", "credits", "description", "meetings",
     "instructors", "prerequisites", "restrictions", "attributes", "notes",
     "text_for_embedding"}

\* the error of a statement that names a column the table does not have
NoColumnError(columns, table) ==
    <<"table courses has no column named ",
      CHOOSE col \in columns \ table : TRUE>>

\* INSERT INTO courses (...) VALUES (...) ON CONFLICT(id) DO UPDATE SET
\* status = excluded.status, updated_at = CURRENT_TIMESTAMP, run on the
\* table: a statement that names a column the table does not have raises
\* and leaves the table as it is; otherwise a new id gives a new row and a
\* known id has its status replaced
InsertCourse(courses, course) ==
    IF ~(InsertColumns \subseteq CoursesColumns)
    THEN [raised |-> TRUE, courses |-> courses,
          error |-> NoColumnError(InsertColumns, CoursesColumns)]
    ELSE [raised |-> FALSE, error |-> <<>>,
          courses |->
              IF \E c \in courses : c.id = course.id
              THEN {IF c.id = course.id
                    THEN [c EXCEPT !.status = course.status] ELSE c :
                       c \in courses}
              ELSE courses \cup {InsertedRow(course)}]

\* const skipComponents = ["DIS", "LAB"]
skipComponents == {"DIS", "LAB"}

(***************************************************************************)
(* Calendar layout engine: colour assignment and day bucketing.            *)
(***************************************************************************)
DAYS == <<"M", "T", "W", "R", "F">>

COLORS ==
    <<"#3b82f6", "#ef4444", "#10b981", "#f59e0b", "#8b5cf6", "#ec4899",
      "#14b8a6">>

\* const courseKey = `${course.subject} ${course.catalog_nbr}`
calendarKey(course) == course.subject \o <<" ">> \o course.catalog_nbr

Count(seq, x) == Cardinality({i \in 1..Len(seq) : seq[i] = x})

SeqContains(s, x) == \E i \in 1..Len(s) : s[i] = x

SeqIndex(s, x) == CHOOSE i \in 1..Len(s) : s[i] = x /\ \A l \in 1..(i - 1) : s[l] # x

RECURSIVE uniqueCourseKeys(_, _, _)
\* the first forEach: the distinct course keys in input order
uniqueCourseKeys(courses, i, uniqueCourses) ==
    IF i > Len(courses) THEN uniqueCourses
    ELSE uniqueCourseKeys(courses, i + 1,
             IF SeqContains(uniqueCourses, calendarKey(courses[i]))
             THEN uniqueCourses
             ELSE Append(uniqueCourses, calendarKey(courses[i])))

\* a plausible slip: one colour per section, by position in the input,
\* instead of one per course
courseColorPerSection(courses, course) ==
    LET colorIdx == SeqIndex(courses, course) - 1
    IN  COLORS[(colorIdx % Len(COLORS)) + 1]

\* a plausible slip: the palette index is not wrapped to the start after
\* the last colour but one step early
courseColorShortCycle(courses, course) ==
    LET uniqueCourses == uniqueCourseKeys(courses, 1, <<>>)
        colorIdx == SeqIndex(uniqueCourses, calendarKey(course)) - 1
    IN  COLORS[(colorIdx % (Len(COLORS) - 1)) + 1]

\* courseColorMap.get(courseKey): COLORS[colorIdx % COLORS.length], colorIdx
\* the number of distinct keys seen before this one
courseColor(courses, course) ==
    LET uniqueCourses == uniqueCourseKeys(courses, 1, <<>>)
        colorIdx == SeqIndex(uniqueCourses, calendarKey(course)) - 1
    IN  COLORS[(colorIdx % Len(COLORS)) + 1]

\* the block pushed for one day of one meeting; endTime is undefined when
\* the time range has no "-"
CourseBlock(course, range, color) ==
    [course |-> calendarKey(course),
     title |-> course.title,
     startTime |-> range[1],
     endDefined |-> Len(range) >= 2,
     endTime |-> IF Len(range) >= 2 THEN range[2] ELSE <<>>,
     color |-> color]

RECURSIVE bucketDaysFirstOnly(_, _, _, _)
\* a plausible slip: the loop over the day codes ends at the first weekday
bucketDaysFirstOnly(daysStr, d, block, dayMap) ==
    IF d > Len(daysStr) THEN dayMap
    ELSE IF SeqContains(DAYS, daysStr[d])
    THEN [dayMap EXCEPT ![daysStr[d]] = Append(@, block)]
    ELSE bucketDaysFirstOnly(daysStr, d + 1, block, dayMap)

RECURSIVE bucketDays(_, _, _, _)
\* for (const dayCode of daysStr.split("")) { if (DAYS.includes(dayCode)) push }
bucketDays(daysStr, d, block, dayMap) ==
    IF d > Len(daysStr) THEN dayMap
    ELSE bucketDays(daysStr, d + 1, block,
             IF SeqContains(DAYS, daysStr[d])
             THEN [dayMap EXCEPT ![daysStr[d]] = Append(@, block)]
             ELSE dayMap)

RECURSIVE bucketMeetings(_, _, _, _, _)
\* meetings.forEach((meeting) => { ... })
bucketMeetings(course, meetings, a, color, dayMap) ==
    IF a > Len(meetings) THEN dayMap
    ELSE LET parts == split(meetings[a], " ")
         IN  bucketMeetings(course, meetings, a + 1, color,
                 IF Len(parts) < 2 THEN dayMap
                 ELSE bucketDays(parts[1], 1,
                          CourseBlock(course, split(parts[2], "-"), color),
                          dayMap))

RECURSIVE bucketCourses(_, _, _)
\* the second forEach; [threw, dayMap]
bucketCourses(courses, i, dayMap) ==
    IF i > Len(courses) THEN [threw |-> FALSE, dayMap |-> dayMap]
    ELSE LET parsed == JSONparse(courses[i].meetings)
         IN  IF parsed.threw \/ ~parsed.iterable
             THEN [threw |-> TRUE, dayMap |-> dayMap]
             ELSE bucketCourses(courses, i + 1,
                      bucketMeetings(courses[i], parsed.items, 1,
                                     courseColor(courses, courses[i]), dayMap))

parseCourseMeetings(courses) ==
    bucketCourses(courses, 1, [d \in {DAYS[i] : i \in 1..Len(DAYS)} |-> <<>>])

\* generateSVGCalendar(courses) throws: JSON.parse or forEach fails in
\* parseCourseMeetings, or generateCourseBlocks calls timeToMinutes on an
\* undefined endTime
generateSVGCalendarThrows(courses) ==
    LET parsed == parseCourseMeetings(courses)
    IN  \/ parsed.threw
        \/ \E i \in 1..Len(DAYS) :
               \E k \in 1..Len(parsed.dayMap[DAYS[i]]) :
                   ~parsed.dayMap[DAYS[i]][k].endDefined

(***************************************************************************)
(* The conflict check of addCourseToSchedule.                              *)
(***************************************************************************)
\* the text of one warning: the existing course and the two meetings
Warning(existingCourse, newMeeting, existingMeeting) ==
    [course |-> courseKey(existingCourse),
     newMeeting |-> newMeeting,
     existingMeeting |-> existingMeeting]

RECURSIVE warnExistingMeetings(_, _, _, _, _)
\* for (const existingMeeting of existingMeetings) { ... push(conflictMsg) }
warnExistingMeetings(existingCourse, newMeeting, existingMeetings, b, acc) ==
    IF b > Len(existingMeetings) THEN acc
    ELSE warnExistingMeetings(existingCourse, newMeeting, existingMeetings, b + 1,
             IF meetingsConflict(newMeeting, existingMeetings[b])
             THEN Append(acc, Warning(existingCourse, newMeeting,
                                      existingMeetings[b]))
             ELSE acc)

RECURSIVE warnNewMeetings(_, _, _, _, _)
\* for (const newMeeting of newMeetings) { for (... of existingMeetings) }
warnNewMeetings(existingCourse, newMeetings, existingParsed, a, acc) ==
    IF a > Len(newMeetings) THEN [threw |-> FALSE, warnings |-> acc]
    ELSE IF ~existingParsed.iterable THEN [threw |-> TRUE, warnings |-> acc]
    ELSE warnNewMeetings(existingCourse, newMeetings, existingParsed, a + 1,
             warnExistingMeetings(existingCourse, newMeetings[a],
                                  existingParsed.items, 1, acc))

RECURSIVE warnExistingCourses(_, _, _, _)
\* for (const existingCourse of existingCourses.results) { ... }
\* r is the outcome so far, and a throw ends the loop
warnExistingCourses(newParsed, existingCourses, k, r) ==
    IF r.threw \/ k > Len(existingCourses) THEN r
    ELSE LET existingParsed == JSONparse(existingCourses[k].meetings)
         IN  IF existingParsed.threw \/ ~newParsed.iterable
             THEN [threw |-> TRUE, warnings |-> r.warnings]
             ELSE warnExistingCourses(newParsed, existingCourses, k + 1,
                      warnNewMeetings(existingCourses[k], newParsed.items,
                                      existingParsed, 1, r.warnings))

\* lines 356-373 of addCourseToSchedule: [threw, warnings]
addConflicts(newCourse, existingCourses) ==
    LET newParsed == JSONparse(newCourse.meetings)
    IN  IF newParsed.threw THEN [threw |-> TRUE, warnings |-> <<>>]
        ELSE warnExistingCourses(newParsed, existingCourses, 1,
                                 [threw |-> FALSE, warnings |-> <<>>])

(***************************************************************************)
(* ORDER BY c.subject, c.catalog_nbr of viewMySchedule.                    *)
(***************************************************************************)
CharOrder ==
    <<" ", "-", "0", "1", "2", "3", "4", "5", "6", "7", "8", "9", ":",
      "A", "B", "C", "D", "E", "F", "G", "H", "I", "J", "K", "L", "M",
      "N", "O", "P", "Q", "R", "S", "T", "U", "V", "W", "X", "Y", "Z",
      "a", "b", "c", "d", "e", "f", "g", "h", "i", "j", "k", "l", "m",
      "n", "o", "p", "q", "r", "s", "t", "u", "v", "w", "x", "y", "z">>

CharRank(c) == CHOOSE i \in 1..Len(CharOrder) : CharOrder[i] = c

RECURSIVE StrLess(_, _)
\* a < b in the BINARY collation
StrLess(a, b) ==
    IF b = <<>> THEN FALSE
    ELSE IF a = <<>> THEN TRUE
    ELSE IF Head(a) = Head(b) THEN StrLess(Tail(a), Tail(b))
    ELSE CharRank(Head(a)) < CharRank(Head(b))

\* row j sorts strictly before row k
OrderBefore(j, k) ==
    \/ StrLess(j.c.subject, k.c.subject)
    \/ j.c.subject = k.c.subject /\ StrLess(j.c.catalog_nbr, k.c.catalog_nbr)

RECURSIVE OrderBySubjectNbr(_)
\* rows with equal keys stay in the order the join gave them
OrderBySubjectNbr(joined) ==
    IF joined = <<>> THEN <<>>
    ELSE LET sorted == OrderBySubjectNbr(SubSeq(joined, 1, Len(joined) - 1))
             last == joined[Len(joined)]
             n == Cardinality({i \in 1..Len(sorted) : ~OrderBefore(last, sorted[i])})
         IN  SubSeq(sorted, 1, n) \o <<last>> \o SubSeq(sorted, n + 1, Len(sorted))

\* SELECT c.*, us.notes, us.added_at FROM user_schedules us JOIN courses c
\* ON us.course_id = c.id WHERE us.user_id = ? ORDER BY c.subject, c.catalog_nbr
\* notes and added_at are not in the index of UNIQUE(user_id, course_id):
\* the rows of the user are read through idx_user_schedules, in rowid order,
\* and then sorted
SelectScheduleOrdered(rows, courses, userId) ==
    LET Mine(j) == j.us.user_id = userId
    IN  OrderBySubjectNbr(SelectSeq(JoinCoursesByRowid(rows, courses), Mine))

\* SELECT c.id, c.title, c.subject, c.catalog_nbr, c.meetings FROM
\* user_schedules us JOIN courses c ON us.course_id = c.id WHERE us.user_id = ?
SelectSchedule(rows, courses, userId) ==
    LET Mine(j) == j.us.user_id = userId
    IN  SelectSeq(JoinCourses(rows, courses), Mine)

CoursesOf(joined) == [i \in 1..Len(joined) |-> joined[i].c]

\* the entries a listing shows: course id and notes
EntriesOf(joined) ==
    [i \in 1..Len(joined) |->
        [course_id |-> joined[i].c.id, notes |-> joined[i].us.notes]]

\* the text schedule is built: JSON.parse(course.meetings) and
\* meetings.forEach run for every course, outside any try
textScheduleThrows(courses) ==
    \E i \in 1..Len(courses) :
        LET parsed == JSONparse(courses[i].meetings)
        IN  parsed.threw \/ ~parsed.iterable

(***************************************************************************)
(* Tool requests.  A request runs from one await to the next in one step;  *)
(* requests of the same or of different users interleave at the awaits.    *)
(***************************************************************************)
MaxOps == 2

Slots == 1..MaxOps

Result(kind, list) == [kind |-> kind, list |-> list]

NoResult == Result("none", <<>>)

\* calls lists, in order, the store statements and the helpers the request
\* has run so far
Request(op, pc, user, courseId, key, notes, newCourse, upserted, result) ==
    [op |-> op, pc |-> pc, user |-> user, courseId |-> courseId, key |-> key,
     notes |-> notes, newCourse |-> newCourse, upserted |-> upserted,
     result |-> result, calls |-> <<>>]

Called(req, calls) == [req EXCEPT !.calls = calls]

IdleReq ==
    Request("none", "idle", "", "", <<>>, Undefined, NoCourse, "none", NoResult)

\* the course ids, notes and removal keys the tools are called with
CourseIdInputs == {c.id : c \in Catalog0} \cup {"CS-9999-001"}

NotesInputs == {Undefined, "", "n1"}

KeyInputs == {sCS \o <<"-">> \o n2110, sMATH \o <<"-">> \o n1920}

\* the schedules of the two users when the requests start
Schedule0 ==
    <<ScheduleRow("u1", cMATH_LEC.id, SqlNull),
      ScheduleRow("u2", cCS_LEC.id, SqlNull),
      ScheduleRow("u2", cMATH_LEC.id, "n1"),
      ScheduleRow("u2", cCS_DIS.id, SqlNull)>>

InitStore ==
    /\ catalog = Catalog0
    /\ schedule \in {<<>>, Schedule0}
    /\ reqs = [r \in Slots |-> IdleReq]
    /\ started = 0

Init ==
    /\ InitStore
    /\ arg = <<>>
    /\ ret = <<>>

\* a plausible slip: the `if (!newCourse)` test is missing
AddLookupUnchecked(userId, courseId, notes) ==
    /\ started < MaxOps
    /\ reqs' = [reqs EXCEPT ![started + 1] =
           Called(Request("add", "upsert", userId, courseId, <<>>, notes,
                          SelectCourseById(catalog, courseId), "none", NoResult),
                  <<"lookup">>)]
    /\ started' = started + 1
    /\ UNCHANGED <<catalog, schedule, arg, ret>>

\* addCourseToSchedule up to the first statement: the course is looked up
AddLookup(userId, courseId, notes) ==
    /\ started < MaxOps
    /\ LET newCourse == SelectCourseById(catalog, courseId)
       IN  reqs' = [reqs EXCEPT ![started + 1] =
                Called(IF newCourse = NoCourse
                       THEN Request("add", "done", userId, courseId, <<>>, notes,
                                    NoCourse, "none", Result("not_found", <<>>))
                       ELSE Request("add", "upsert", userId, courseId, <<>>, notes,
                                    newCourse, "none", NoResult),
                       <<"lookup">>)]
    /\ started' = started + 1
    /\ UNCHANGED <<catalog, schedule, arg, ret>>

\* a plausible slip: the conflict check runs first and a course that
\* conflicts with the schedule is not inserted
AddUpsertUnlessConflict(r) ==
    /\ reqs[r].op = "add"
    /\ reqs[r].pc = "upsert"
    /\ LET existingCourses ==
               SelectOtherCourses(schedule, catalog, reqs[r].user,
                                  reqs[r].courseId)
           conflicts == addConflicts(reqs[r].newCourse, existingCourses)
       IN  schedule' =
               IF Len(conflicts.warnings) > 0 THEN schedule
               ELSE UpsertSchedule(schedule, reqs[r].user, reqs[r].courseId,
                                   NotesOrNull(reqs[r].notes))
    /\ reqs' = [reqs EXCEPT ![r].pc = "scan",
                            ![r].calls = Append(@, "upsert"),
                            ![r].upserted =
                                IF Len(schedule') > Len(schedule)
                                THEN "inserted" ELSE "updated"]
    /\ UNCHANGED <<catalog, started, arg, ret>>

\* a plausible slip: the existing courses are selected and scanned before
\* the INSERT runs
AddUpsertAfterScan(r) ==
    /\ reqs[r].op = "add"
    /\ reqs[r].pc = "upsert"
    /\ schedule' = UpsertSchedule(schedule, reqs[r].user, reqs[r].courseId,
                                  NotesOrNull(reqs[r].notes))
    /\ reqs' = [reqs EXCEPT
           ![r].pc = "scan",
           ![r].calls = @ \o <<"select", "scan", "upsert">>,
           ![r].upserted = IF Len(schedule') > Len(schedule)
                           THEN "inserted" ELSE "updated"]
    /\ UNCHANGED <<catalog, started, arg, ret>>

\* the INSERT ... ON CONFLICT statement runs
AddUpsert(r) ==
    /\ reqs[r].op = "add"
    /\ reqs[r].pc = "upsert"
    /\ schedule' = UpsertSchedule(schedule, reqs[r].user, reqs[r].courseId,
                                  NotesOrNull(reqs[r].notes))
    /\ reqs' = [reqs EXCEPT ![r].pc = "scan",
                            ![r].calls = Append(@, "upsert"),
                            ![r].upserted =
                                IF Len(schedule') > Len(schedule)
                                THEN "inserted" ELSE "updated"]
    /\ UNCHANGED <<catalog, started, arg, ret>>

\* the response of addCourseToSchedule: the confirmation with the
\* warnings, or the message of the catch block
addResponse(conflicts) ==
    IF conflicts.threw THEN Result("error", <<>>)
    ELSE Result("added", conflicts.warnings)

\* the existing courses are selected, the conflicts collected and the
\* response built; a throw is caught and reported as a message
AddScan(r) ==
    /\ reqs[r].op = "add"
    /\ reqs[r].pc = "scan"
    /\ reqs' = [reqs EXCEPT
           ![r].pc = "done",
           ![r].calls = @ \o <<"select", "scan">>,
           ![r].result =
               addResponse(addConflicts(reqs[r].newCourse,
                   SelectOtherCourses(schedule, catalog, reqs[r].user,
                                      reqs[r].courseId)))]
    /\ UNCHANGED <<catalog, schedule, started, arg, ret>>

\* a plausible slip: the `result.meta.changes === 0` test is missing
RemoveCourseNoChangesTest(userId, key) ==
    /\ started < MaxOps
    /\ LET parts == split(key, "-")
       IN  IF Len(parts) < 2
           THEN /\ schedule' = schedule
                /\ reqs' = [reqs EXCEPT ![started + 1] =
                       Request("remove", "done", userId, "", key, Undefined,
                               NoCourse, "none", Result("raised", <<>>))]
           ELSE /\ schedule' = DeleteByKey(schedule, catalog, userId,
                                           parts[1], parts[2])
                /\ reqs' = [reqs EXCEPT ![started + 1] =
                       Called(Request("remove", "done", userId, "", key,
                                  Undefined, NoCourse, "none",
                                  Result("removed",
                                      <<Len(schedule) - Len(schedule')>>)),
                              <<"delete">>)]
    /\ started' = started + 1
    /\ UNCHANGED <<catalog, arg, ret>>

\* removeCourseFromSchedule: the key is split and the DELETE runs; binding
\* an undefined catalog number is rejected by the store and the request
\* ends with that exception
RemoveCourse(userId, key) ==
    /\ started < MaxOps
    /\ LET parts == split(key, "-")
       IN  IF Len(parts) < 2
           THEN /\ schedule' = schedule
                /\ reqs' = [reqs EXCEPT ![started + 1] =
                       Request("remove", "done", userId, "", key, Undefined,
                               NoCourse, "none", Result("raised", <<>>))]
           ELSE /\ schedule' = DeleteByKey(schedule, catalog, userId,
                                           parts[1], parts[2])
                /\ reqs' = [reqs EXCEPT ![started + 1] =
                       Called(Request("remove", "done", userId, "", key,
                                  Undefined, NoCourse, "none",
                                  \* result.meta.changes
                                  IF Len(schedule) - Len(schedule') = 0
                                  THEN Result("not_in_schedule", <<0>>)
                                  ELSE Result("removed",
                                           <<Len(schedule) - Len(schedule')>>)),
                              <<"delete">>)]
    /\ started' = started + 1
    /\ UNCHANGED <<catalog, arg, ret>>

\* a plausible slip: the `results.length === 0` test is missing
ViewSelectNoEmptyTest(userId) ==
    /\ started < MaxOps
    /\ LET joined == SelectScheduleOrdered(schedule, catalog, userId)
           View(pc, kind, calls) ==
               Called(Request("view", pc, userId, "", <<>>, Undefined, NoCourse,
                              "none", Result(kind, EntriesOf(joined))),
                      calls)
       IN  reqs' = [reqs EXCEPT ![started + 1] =
                IF textScheduleThrows(CoursesOf(joined))
                THEN View("done", "raised", <<"select", "text">>)
                ELSE IF generateSVGCalendarThrows(CoursesOf(joined))
                THEN View("done", "text", <<"select", "text", "layout">>)
                ELSE View("upload", "none", <<"select", "text", "layout">>)]
    /\ started' = started + 1
    /\ UNCHANGED <<catalog, schedule, arg, ret>>

\* viewMySchedule up to the upload: the schedule is selected, the text is
\* built and the calendar generated
ViewSelect(userId) ==
    /\ started < MaxOps
    /\ LET joined == SelectScheduleOrdered(schedule, catalog, userId)
           View(pc, kind, calls) ==
               Called(Request("view", pc, userId, "", <<>>, Undefined, NoCourse,
                              "none", Result(kind, EntriesOf(joined))),
                      calls)
       IN  reqs' = [reqs EXCEPT ![started + 1] =
                IF Len(joined) = 0 THEN View("done", "empty", <<"select">>)
                ELSE IF textScheduleThrows(CoursesOf(joined))
                THEN View("done", "raised", <<"select", "text">>)
                ELSE IF generateSVGCalendarThrows(CoursesOf(joined))
                THEN View("done", "text", <<"select", "text", "layout">>)
                ELSE View("upload", "none", <<"select", "text", "layout">>)]
    /\ started' = started + 1
    /\ UNCHANGED <<catalog, schedule, arg, ret>>

\* a plausible slip: the `if (imageUrl)` test is missing
ViewUploadUnchecked(r, uploaded) ==
    /\ reqs[r].op = "view"
    /\ reqs[r].pc = "upload"
    /\ reqs' = [reqs EXCEPT ![r].pc = "done",
                            ![r].calls =
                                Append(@, IF uploaded THEN "upload-url"
                                          ELSE "upload-null"),
                            ![r].result.kind = "text_image"]
    /\ UNCHANGED <<catalog, schedule, started, arg, ret>>

\* a plausible slip: the schedule is selected again once the upload has
\* settled, and the response lists that second selection
ViewUploadSelectsAgain(r, uploaded) ==
    /\ reqs[r].op = "view"
    /\ reqs[r].pc = "upload"
    /\ reqs' = [reqs EXCEPT
           ![r].pc = "done",
           ![r].calls = @ \o <<IF uploaded THEN "upload-url" ELSE "upload-null",
                               "select">>,
           ![r].result =
               Result(IF uploaded THEN "text_image" ELSE "text",
                      EntriesOf(SelectScheduleOrdered(schedule, catalog,
                                                      reqs[r].user)))]
    /\ UNCHANGED <<catalog, schedule, started, arg, ret>>

\* uploadSVGImage settles: a URL, or null on any failure
ViewUpload(r, uploaded) ==
    /\ reqs[r].op = "view"
    /\ reqs[r].pc = "upload"
    /\ reqs' = [reqs EXCEPT ![r].pc = "done",
                            ![r].calls =
                                Append(@, IF uploaded THEN "upload-url"
                                          ELSE "upload-null"),
                            ![r].result.kind =
                                IF uploaded THEN "text_image" ELSE "text"]
    /\ UNCHANGED <<catalog, schedule, started, arg, ret>>

\* the response of checkScheduleConflicts for two courses or more: the
\* exception of the scan is not caught
checkResponse(scan) ==
    IF scan.threw THEN Result("raised", <<>>)
    ELSE IF Len(scan.conflicts) = 0 THEN Result("no_conflicts", <<>>)
    ELSE Result("conflicts", scan.conflicts)

\* a plausible slip: the test is `results.length < 1`
CheckConflictsOffByOne(userId) ==
    /\ started < MaxOps
    /\ LET joined == SelectSchedule(schedule, catalog, userId)
       IN  reqs' = [reqs EXCEPT ![started + 1] =
                Called(Request("check", "done", userId, "", <<>>, Undefined,
                           NoCourse, "none",
                           IF Len(joined) < 1 THEN Result("need_two", <<>>)
                           ELSE checkResponse(findConflicts(CoursesOf(joined)))),
                       IF Len(joined) < 1 THEN <<"select">>
                       ELSE <<"select", "scan">>)]
    /\ started' = started + 1
    /\ UNCHANGED <<catalog, schedule, arg, ret>>

\* checkScheduleConflicts: the schedule is selected and scanned
CheckConflicts(userId) ==
    /\ started < MaxOps
    /\ LET joined == SelectSchedule(schedule, catalog, userId)
       IN  reqs' = [reqs EXCEPT ![started + 1] =
                Called(Request("check", "done", userId, "", <<>>, Undefined,
                           NoCourse, "none",
                           IF Len(joined) < 2 THEN Result("need_two", <<>>)
                           ELSE checkResponse(findConflicts(CoursesOf(joined)))),
                       IF Len(joined) < 2 THEN <<"select">>
                       ELSE <<"select", "scan">>)]
    /\ started' = started + 1
    /\ UNCHANGED <<catalog, schedule, arg, ret>>

Next ==
    \/ \E u \in Users, c \in CourseIdInputs, n \in NotesInputs : AddLookup(u, c, n)
    \/ \E r \in Slots : AddUpsert(r)
    \/ \E r \in Slots : AddScan(r)
    \/ \E u \in Users, k \in KeyInputs : RemoveCourse(u, k)
    \/ \E u \in Users : ViewSelect(u)
    \/ \E r \in Slots, uploaded \in BOOLEAN : ViewUpload(r, uploaded)
    \/ \E u \in Users : CheckConflicts(u)

Spec == Init /\ [][Next]_vars

(***************************************************************************)
(* The same tools over a catalog with rows as the upstream data can leave  *)
(* them: a meeting without an end time, a meetings column that is null,    *)
(* and one that is not JSON.                                               *)
(***************************************************************************)
sPE == <<"P", "E">>
sLAW == <<"L", "A", "W">>

\* JSON.stringify(null) was stored, or the column is NULL
cPE_LEC ==
    Course("PE-1100-001", sPE, n1100, <<"S", "w", "i", "m">>, "001", "LEC",
           JSONnull)

\* the column holds text that is not JSON
cLAW_LEC ==
    Course("LAW-1100-001", sLAW, n1100, <<"T", "o", "r", "t">>, "001", "LEC",
           JSONinvalid)

CatalogDirty == {cCS_LEC, cMATH_LEC, cART_SEM, cPE_LEC, cLAW_LEC}

ScheduleDirty ==
    <<ScheduleRow("u1", cCS_LEC.id, SqlNull),
      ScheduleRow("u1", cART_SEM.id, SqlNull),
      ScheduleRow("u2", cMATH_LEC.id, SqlNull),
      ScheduleRow("u2", cPE_LEC.id, SqlNull)>>

\* the same without the row of the null meetings
ScheduleNoEnd ==
    <<ScheduleRow("u1", cCS_LEC.id, SqlNull),
      ScheduleRow("u1", cART_SEM.id, SqlNull),
      ScheduleRow("u2", cMATH_LEC.id, SqlNull)>>

DirtyIdInputs ==
    {cCS_LEC.id, cMATH_LEC.id, cART_SEM.id, cPE_LEC.id, cLAW_LEC.id}

DirtyKeyInputs == {sART \o <<"-">> \o n1100, sPE \o <<"-">> \o n1100}

InitDirty ==
    /\ catalog = CatalogDirty
    /\ schedule \in {<<>>, ScheduleDirty, ScheduleNoEnd}
    /\ reqs = [r \in Slots |-> IdleReq]
    /\ started = 0
    /\ arg = <<>>
    /\ ret = <<>>

NextDirty ==
    \/ \E u \in Users, c \in DirtyIdInputs : AddLookup(u, c, Undefined)
    \/ \E r \in Slots : AddUpsert(r)
    \/ \E r \in Slots : AddScan(r)
    \/ \E u \in Users, k \in DirtyKeyInputs : RemoveCourse(u, k)
    \/ \E u \in Users : ViewSelect(u)
    \/ \E r \in Slots, uploaded \in BOOLEAN : ViewUpload(r, uploaded)
    \/ \E u \in Users : CheckConflicts(u)

SpecDirty == InitDirty /\ [][NextDirty]_vars

(***************************************************************************)
(* Calls of the pure helpers: the arguments are drawn by the initial       *)
(* predicate (or built up, for the calendar), the call stores the result.  *)
(***************************************************************************)
StoreAtRest ==
    /\ catalog = Catalog0
    /\ schedule = <<>>
    /\ reqs = [r \in Slots |-> IdleReq]
    /\ started = 0

NotCalled == [called |-> FALSE, value |-> <<>>]

Returned(value) == [called |-> TRUE, value |-> value]

\* timeToMinutes on two valid 12-hour times
TimeInputs == {t \in ValidTimes : t.h >= 10 => t.pad}

InitTime ==
    /\ StoreAtRest
    /\ arg \in [t1 : TimeInputs, t2 : TimeInputs]
    /\ ret = NotCalled

CallTimeToMinutes ==
    /\ ~ret.called
    /\ ret' = Returned(<<timeToMinutes(TimeStr(arg.t1)),
                         timeToMinutes(TimeStr(arg.t2))>>)
    /\ UNCHANGED <<catalog, schedule, reqs, started, arg>>

SpecTime == InitTime /\ [][CallTimeToMinutes]_vars

\* timeToMinutes on any string: strings without a match of the pattern,
\* strings with a match inside other text or with numbers off the clock,
\* and the valid times
UnmatchedStrings ==
    {<<>>,
     <<"T", "B", "A">>,
     <<"1", "0", ":", "1", "0">>,
     <<"1", "0", "1", "0", "A", "M">>,
     <<":", "1", "0", "A", "M">>,
     <<"1", "0", ":", "A", "M">>,
     <<"1", "0", ":", "1", "0", "a", "m">>,
     <<"1", "0", ":", "1", "0", " ", "A", "M">>,
     <<"A", "M">>,
     <<"1", "0", "-", "1", "0", "A", "M">>,
     <<"1", "0", ":", "1", "0", "A">>,
     <<"P", "M", "1", "0", ":", "1", "0">>,
     <<"1", "O", ":", "1", "0", "A", "M">>,
     <<"1", "0", ":", "1", "0", "M", "A">>}

OddMatches ==
    {<<"x", "1", "0", ":", "1", "0", "A", "M", "y">>,
     <<"1", "3", ":", "0", "0", "P", "M">>,
     <<"0", ":", "5", "A", "M">>,
     <<"1", "0", ":", "1", "0", "A", "M", "P", "M">>,
     <<"9", "9", ":", "9", "9", "P", "M">>,
     <<"T", "B", "A", " ", "9", ":", "0", "5", "A", "M">>,
     <<"1", "2", ":", "0", "0", "A", "M">>,
     <<"1", "2", ":", "0", "0", "P", "M">>}

TimeStrings ==
    UnmatchedStrings \cup OddMatches \cup {TimeStr(t) : t \in ValidTimes}

InitParse ==
    /\ StoreAtRest
    /\ arg \in [timeStr : TimeStrings]
    /\ ret = NotCalled

CallTimeToMinutesOnString ==
    /\ ~ret.called
    /\ ret' = [called |-> TRUE,
               raised |-> timeToMinutesRaises(arg.timeStr),
               value |-> timeToMinutes(arg.timeStr)]
    /\ UNCHANGED <<catalog, schedule, reqs, started, arg>>

SpecParse == InitParse /\ [][CallTimeToMinutesOnString]_vars

\* meetingsConflict on two meeting strings
InitMeet ==
    /\ StoreAtRest
    /\ arg \in [meeting1 : MeetingInputs, meeting2 : MeetingInputs]
    /\ ret = NotCalled

CallMeetingsConflict ==
    /\ ~ret.called
    /\ ret' = [called |-> TRUE,
               raised |-> meetingsConflictOutcome(MeetingStr(arg.meeting1),
                                                  MeetingStr(arg.meeting2)).raised,
               value |-> meetingsConflict(MeetingStr(arg.meeting1),
                                          MeetingStr(arg.meeting2))]
    /\ UNCHANGED <<catalog, schedule, reqs, started, arg>>

SpecMeet == InitMeet /\ [][CallMeetingsConflict]_vars

\* findConflicts on a list of course rows: any list over the pool, or two
\* one-meeting courses with any two of the probe meeting strings
ProbeMeetings ==
    MalformedMeetings
        \cup {Meeting(d, st, en) :
                 d \in {<<"M">>, <<"M", "W">>, <<"T", "R">>},
                 st \in {T(9, 5, FALSE), T(10, 10, FALSE), T(11, 25, FALSE)},
                 en \in {T(10, 10, FALSE), T(11, 25, FALSE), T(12, 5, TRUE)}}

ProbeCourse(id, subject, mt) ==
    Course(id, subject, n1100, <<"X">>, "001", "LEC",
           JSONarray(<<MeetingStr(mt)>>))

ScanInputs ==
    UNION {[1..n -> ScanPool] : n \in 0..MaxScan}
        \cup {<<ProbeCourse("A-1100-001", <<"A">>, m1),
                ProbeCourse("B-1100-001", <<"B">>, m2)>> :
                 m1 \in ProbeMeetings, m2 \in ProbeMeetings}

InitScan ==
    /\ StoreAtRest
    /\ arg \in [courses : ScanInputs]
    /\ ret = NotCalled

CallFindConflicts ==
    /\ ~ret.called
    /\ ret' = Returned(findConflicts(arg.courses))
    /\ UNCHANGED <<catalog, schedule, reqs, started, arg>>

SpecScan == InitScan /\ [][CallFindConflicts]_vars

\* parseCourseMeetings on a list of distinct course rows: the first
\* FreeLen rows in any order, the rest in the order of the pool
sNAVS == <<"N", "A", "V", "S">>

\* a day pattern with a Saturday and with Monday written twice
cNAVS_LAB ==
    Course("NAVS-1100-401", sNAVS, n1100, <<"S", "e", "a">>, "401", "LAB",
           JSONarray(<<<<"M", "S", "M", " ">> \o TimeStr(T(7, 0, FALSE))
                           \o <<"-">> \o TimeStr(T(8, 0, FALSE))>>))

CalPool ==
    <<cCS_LEC, cMATH_LEC, cCS_DIS, cPHYS_LEC, cCHEM_LAB, cART_SEM,
      cMUSIC_IND, cECON_LEC, cHIST_LEC, cBIOG_LAB, cNAVS_LAB>>

MaxCal == 9

FreeLen == 2

InitCal ==
    /\ StoreAtRest
    /\ arg = [courses |-> <<>>]
    /\ ret = NotCalled

CalAppend(k) ==
    /\ ~ret.called
    /\ Len(arg.courses) < MaxCal
    /\ ~SeqContains(arg.courses, CalPool[k])
    /\ IF Len(arg.courses) < FreeLen THEN TRUE
       ELSE k > SeqIndex(CalPool, arg.courses[Len(arg.courses)])
    /\ arg' = [courses |-> Append(arg.courses, CalPool[k])]
    /\ UNCHANGED <<catalog, schedule, reqs, started, ret>>

CallParseCourseMeetings ==
    /\ ~ret.called
    /\ ret' = Returned(parseCourseMeetings(arg.courses))
    /\ UNCHANGED <<catalog, schedule, reqs, started, arg>>

NextCal ==
    \/ \E k \in 1..Len(CalPool) : CalAppend(k)
    \/ CallParseCourseMeetings

SpecCal == InitCal /\ [][NextCal]_vars

\* meetingsConflict on two meeting strings, and the calendar of two courses
\* that have one of the strings each: the blocks as parseCourseMeetings
\* buckets them, with the minutes generateCourseBlocks draws them at
AgreeDays ==
    {<<"M", "W">>, <<"W", "F">>, <<"T", "R">>, <<"S">>, <<"M", "S">>,
     <<"S", "U">>}

AgreeMeetings ==
    MalformedMeetings
        \cup {Meeting(d, st, en) :
                 d \in AgreeDays,
                 st \in {T(9, 5, FALSE), T(10, 10, FALSE), T(11, 25, FALSE)},
                 en \in {T(10, 10, FALSE), T(11, 25, FALSE), T(12, 5, TRUE)}}

\* const startMin = timeToMinutes(block.startTime);
\* const endMin = timeToMinutes(block.endTime): the second call throws on an
\* undefined endTime
blockMinutes(block) ==
    [course |-> block.course,
     threw |-> ~block.endDefined,
     startMin |-> timeToMinutes(block.startTime),
     endMin |-> IF block.endDefined THEN timeToMinutes(block.endTime) ELSE 0]

\* DAYS.forEach((day) => courseBlocks.forEach((block) => ...)): per day,
\* the minutes of the blocks of the bucket
dayBlockMinutes(dayMap) ==
    [d \in DOMAIN dayMap |->
        [k \in 1..Len(dayMap[d]) |-> blockMinutes(dayMap[d][k])]]

AgreeCourse1(mt) == ProbeCourse("A-1100-001", <<"A">>, mt)

AgreeCourse2(mt) == ProbeCourse("B-1100-001", <<"B">>, mt)

InitAgree ==
    /\ StoreAtRest
    /\ arg \in [meeting1 : AgreeMeetings, meeting2 : AgreeMeetings]
    /\ ret = NotCalled

CallConflictAndLayout ==
    /\ ~ret.called
    /\ ret' = [called |-> TRUE,
               value |-> meetingsConflict(MeetingStr(arg.meeting1),
                                          MeetingStr(arg.meeting2)),
               blocks |-> dayBlockMinutes(
                   parseCourseMeetings(<<AgreeCourse1(arg.meeting1),
                                         AgreeCourse2(arg.meeting2)>>).dayMap)]
    /\ UNCHANGED <<catalog, schedule, reqs, started, arg>>

SpecAgree == InitAgree /\ [][CallConflictAndLayout]_vars

\* ingestCourses on a body of course objects: for each in turn ingestCourse,
\* whose first statement is the INSERT; an exception of ingestCourse is
\* counted in failed, its message is kept in errors, and the loop goes on
MaxIngest == 3

\* the lecture of CS 2110, the same id with another status, title and
\* meetings, a discussion section, a lecture of another subject, and a
\* course whose meetings are null
IngestPool ==
    {CornellCourse(cCS_LEC.id, sCS, n2110, cCS_LEC.title, "001", "LEC", "O",
                   MeetingsList(cCS_LEC.meetings.items)),
     CornellCourse(cCS_LEC.id, sCS, n2110, <<"O", "O", "P", "2">>, "001",
                   "LEC", "C",
                   MeetingsList(<<MeetingStr(Meeting(<<"T", "R">>,
                                      T(10, 10, FALSE), T(11, 25, FALSE)))>>)),
     CornellCourse(cCS_DIS.id, sCS, n2110, cCS_DIS.title, "201", "DIS", "C",
                   MeetingsList(<<MeetingStr(Meeting(<<"R">>,
                                      T(9, 5, FALSE), T(9, 55, FALSE)))>>)),
     CornellCourse(cECON_LEC.id, sECON, n1110, cECON_LEC.title, "001", "LEC",
                   "O", MeetingsList(cECON_LEC.meetings.items)),
     CornellCourse(cPE_LEC.id, sPE, n1100, cPE_LEC.title, "001", "LEC", "O",
                   MeetingsNull)}

IngestBodies == UNION {[1..n -> IngestPool] : n \in 0..MaxIngest}

\* the table courses as schema.sql creates it: empty
InitIngest ==
    /\ catalog = {}
    /\ schedule = <<>>
    /\ reqs = [r \in Slots |-> IdleReq]
    /\ started = 0
    /\ arg \in [courses : IngestBodies]
    /\ ret = [pc |-> "insert", success |-> 0, failed |-> 0, errors |-> <<>>]

\* the course is done, with success++ or, after an exception, failed++ and
\* the message `Failed to ingest ${course.id}: ${error}` in errors, and the
\* loop takes the next course of the body
IngestNextCourse(succeeded, error) ==
    /\ arg' = [courses |-> Tail(arg.courses)]
    /\ ret' = [pc |-> "insert",
               success |-> ret.success + (IF succeeded THEN 1 ELSE 0),
               failed |-> ret.failed + (IF succeeded THEN 0 ELSE 1),
               errors |-> IF succeeded THEN ret.errors
                          ELSE Append(ret.errors,
                                   <<"Failed to ingest ",
                                     Head(arg.courses).id, ": ", error>>)]

\* ingestCourse on the next course of the body: the INSERT runs on the
\* table of schema.sql and raises, ingestCourse rejects and ingestCourses
\* counts the course as failed.  The statements after the INSERT (the
\* return for a DIS or LAB section, the embedding and the upsert of the
\* vector) follow an INSERT that has run
IngestInsert ==
    /\ ret.pc = "insert"
    /\ arg.courses # <<>>
    /\ LET done == InsertCourse(catalog, Head(arg.courses))
       IN  /\ catalog' = done.courses
           /\ IF done.raised
              THEN IngestNextCourse(FALSE, done.error)
              ELSE IF Head(arg.courses).component \in skipComponents
                   THEN IngestNextCourse(TRUE, <<>>)
                   ELSE arg' = arg /\ ret' = [ret EXCEPT !.pc = "embed"]
    /\ UNCHANGED <<schedule, reqs, started>>

NextIngest == IngestInsert

SpecIngest == InitIngest /\ [][NextIngest]_vars

\* C1: at every moment, whatever adds and removes have run or are running,
\* user_schedules holds at most one row per (user, course) pair.
OneEntryPerUserCourse ==
    \A i, j \in 1..Len(schedule) :
        (schedule[i].user_id = schedule[j].user_id
            /\ schedule[i].course_id = schedule[j].course_id) => i = j


\* the rows of (userId, courseId), with their multiplicity
EntriesFor(rows, userId, courseId) ==
    SelectSeq(rows, LAMBDA row : row.user_id = userId /\ row.course_id = courseId)

\* two adds of the same course by the same user are both past their upsert,
\* one having inserted and the other updated, and one row stands
OneEntryConcurrentAddsWitness ==
    \E r1, r2 \in Slots :
        /\ r1 # r2
        /\ reqs[r1].op = "add" /\ reqs[r2].op = "add"
        /\ reqs[r1].pc = "scan" /\ reqs[r2].pc = "scan"
        /\ reqs[r1].user = reqs[r2].user
        /\ reqs[r1].courseId = reqs[r2].courseId
        /\ reqs[r1].upserted = "inserted" /\ reqs[r2].upserted = "updated"
        /\ Len(EntriesFor(schedule, reqs[r1].user, reqs[r1].courseId)) = 1

\* the steps of a request, told by its slot before and after
LooksUp(r) == reqs[r].pc = "idle" /\ reqs'[r].op = "add"

Upserts(r) == reqs[r].pc = "upsert" /\ reqs'[r].pc = "scan"

Scans(r) == reqs[r].pc = "scan" /\ reqs'[r].pc = "done"

Removes(r) == reqs[r].pc = "idle" /\ reqs'[r].op = "remove"

Lists(r) == reqs[r].pc = "idle" /\ reqs'[r].op = "view"

CatalogIds == {c.id : c \in catalog}

\* C4: an add of a course of the catalog goes on to its upsert whether or
\* not the course conflicts with the schedule, the entry is present once the
\* upsert has run, the conflict check changes no entry, and conflicts show
\* only as warnings of the success message.
AddInsertsDespiteConflicts ==
    [][\A r \in Slots :
          /\ (LooksUp(r) /\ reqs'[r].courseId \in CatalogIds)
                 => reqs'[r].pc = "upsert"
          /\ Upserts(r) =>
                 Len(EntriesFor(schedule', reqs[r].user, reqs[r].courseId)) >= 1
          /\ Scans(r) =>
                 /\ schedule' = schedule
                 /\ reqs'[r].result.kind \in {"added", "error"}
                 /\ Len(reqs'[r].result.list) > 0
                        => reqs'[r].result.kind = "added"]_vars

\* an add has returned success with a warning and its entry is in the
\* schedule beside the course it conflicts with
AddWithConflictWitness ==
    \E r \in Slots :
        /\ reqs[r].op = "add" /\ reqs[r].pc = "done"
        /\ reqs[r].courseId = cCS_LEC.id
        /\ reqs[r].upserted = "inserted"
        /\ reqs[r].result.kind = "added"
        /\ Len(reqs[r].result.list) = 1
        /\ reqs[r].result.list[1].course = courseKey(cMATH_LEC)
        /\ Len(EntriesFor(schedule, reqs[r].user, cCS_LEC.id)) = 1
        /\ Len(EntriesFor(schedule, reqs[r].user, cMATH_LEC.id)) = 1

\* the notes an add leaves in the entry: its notes argument, or NULL when
\* the argument is omitted or empty
NotesOfAdd(notes) == IF notes \in {Undefined, ""} THEN SqlNull ELSE notes

\* C5: an add of a course already in the user's schedule leaves exactly one
\* entry for it, carrying the notes of this add, and a listing of the
\* schedule shows per course the entries the table holds, with their notes.
AddAgainUpdatesNotes ==
    [][\A r \in Slots :
          /\ (Upserts(r)
                /\ Len(EntriesFor(schedule, reqs[r].user, reqs[r].courseId)) >= 1)
                 => LET after == EntriesFor(schedule', reqs[r].user,
                                            reqs[r].courseId)
                    IN  /\ Len(after) = 1
                        /\ after[1].notes = NotesOfAdd(reqs[r].notes)
                        /\ Len(schedule') = Len(schedule)
          /\ Lists(r) =>
                 \A c \in CourseIdInputs :
                     LET shown == SelectSeq(reqs'[r].result.list,
                                            LAMBDA e : e.course_id = c)
                         held == EntriesFor(schedule, reqs'[r].user, c)
                     IN  /\ Len(shown) = Len(held)
                         /\ \A i \in 1..Len(shown) : shown[i].notes = held[i].notes
      ]_vars

\* a repeated add with new notes, followed by a listing that shows the one
\* entry with these notes
AddAgainWitness ==
    \E r1, r2 \in Slots :
        /\ r1 < r2
        /\ reqs[r1].op = "add" /\ reqs[r1].pc = "done"
        /\ reqs[r1].upserted = "updated"
        /\ reqs[r1].notes = "n1"
        /\ reqs[r2].op = "view"
        /\ reqs[r2].user = reqs[r1].user
        /\ LET shown == SelectSeq(reqs[r2].result.list,
                                  LAMBDA e : e.course_id = reqs[r1].courseId)
           IN  Len(shown) = 1 /\ shown[1].notes = "n1"
        /\ schedule # Schedule0

\* the schedule row is an entry of userId for a section of the course the
\* key SUBJECT-CATALOGNBR names
InRemovalScope(row, userId, key) ==
    /\ row.user_id = userId
    /\ \E c \in catalog :
           /\ c.id = row.course_id
           /\ c.subject \o <<"-">> \o c.catalog_nbr = key

\* C6: a remove by user u with key SUBJECT-CATALOGNBR deletes every entry of
\* u for a section of that course and leaves every other entry as it was.
RemoveDeletesAllSectionsOnly ==
    [][\A r \in Slots :
          Removes(r) =>
              /\ \A i \in 1..Len(schedule') :
                     ~InRemovalScope(schedule'[i], reqs'[r].user, reqs'[r].key)
              /\ \A i \in 1..Len(schedule) :
                     ~InRemovalScope(schedule[i], reqs'[r].user, reqs'[r].key)
                         => Count(schedule', schedule[i]) = Count(schedule, schedule[i])
              /\ \A i \in 1..Len(schedule') : Count(schedule, schedule'[i]) >= 1
      ]_vars

\* u2 has removed CS-2110: the lecture and the discussion are gone, the
\* other course of u2 and the entries of u1 stand
RemoveAllSectionsWitness ==
    \E r \in Slots :
        /\ reqs[r].op = "remove" /\ reqs[r].pc = "done"
        /\ reqs[r].user = "u2"
        /\ reqs[r].key = sCS \o <<"-">> \o n2110
        /\ reqs[r].result = Result("removed", <<2>>)
        /\ Len(EntriesFor(schedule, "u2", cCS_LEC.id)) = 0
        /\ Len(EntriesFor(schedule, "u2", cCS_DIS.id)) = 0
        /\ Len(EntriesFor(schedule, "u2", cMATH_LEC.id)) = 1
        /\ Len(EntriesFor(schedule, "u1", cCS_LEC.id)) = 1
        /\ Len(EntriesFor(schedule, "u1", cMATH_LEC.id)) = 1

\* C7: an add of a course id that the catalog does not hold returns the
\* not-found message as its result, changes no schedule entry, and the
\* request takes no further step.
AddUnknownCourseChangesNothing ==
    [][\A r \in Slots :
          /\ (LooksUp(r) /\ reqs'[r].courseId \notin CatalogIds)
                 => /\ reqs'[r].pc = "done"
                    /\ reqs'[r].result = Result("not_found", <<>>)
                    /\ schedule' = schedule
          /\ reqs[r].pc = "done" => reqs'[r] = reqs[r]]_vars

\* an add of an unknown course id has returned not found
AddUnknownCourseWitness ==
    \E r \in Slots :
        /\ reqs[r].op = "add" /\ reqs[r].pc = "done"
        /\ reqs[r].courseId = "CS-9999-001"
        /\ reqs[r].result.kind = "not_found"
        /\ schedule \in {<<>>, Schedule0}

(***************************************************************************)
(* Properties of the pure helpers.                                         *)
(***************************************************************************)
\* C9: for a valid 12-hour time, timeToMinutes is ((hour mod 12) + 12 if PM)
\* * 60 + minute: 12:00AM is 0, 12:00PM is 720, 11:59PM is 1439, and a time
\* earlier in the day gives a strictly smaller result.
TimeToMinutesIsClockMinutes ==
    ret.called =>
        /\ ret.value[1] = ClockMinutes(arg.t1)
        /\ ret.value[2] = ClockMinutes(arg.t2)
        /\ (arg.t1.h = 12 /\ arg.t1.m = 0 /\ ~arg.t1.pm) => ret.value[1] = 0
        /\ (arg.t1.h = 12 /\ arg.t1.m = 0 /\ arg.t1.pm) => ret.value[1] = 720
        /\ (arg.t1.h = 11 /\ arg.t1.m = 59 /\ arg.t1.pm) => ret.value[1] = 1439
        /\ Earlier(arg.t1, arg.t2) => ret.value[1] < ret.value[2]

\* noon and the last minute of the day have been converted, in that order
TimeToMinutesNoonWitness ==
    /\ ret.called
    /\ arg.t1 = T(12, 0, TRUE)
    /\ arg.t2 = T(11, 59, TRUE)
    /\ ret.value = <<720, 1439>>

SharedDay(mt1, mt2) ==
    \E i \in 1..Len(mt1.days) : \E j \in 1..Len(mt2.days) :
        mt1.days[i] = mt2.days[j]

\* C2: two well-formed meetings conflict exactly when they share a day
\* letter and start1 < end2 and start2 < end1 in minutes since midnight;
\* without a common day they never conflict, and back-to-back meetings on a
\* common day do not conflict.
MeetingsConflictIffDayAndTimeOverlap ==
    (ret.called /\ WellFormed(arg.meeting1) /\ WellFormed(arg.meeting2)) =>
        ret.value =
            (/\ SharedDay(arg.meeting1, arg.meeting2)
             /\ ClockMinutes(arg.meeting1.start) < ClockMinutes(arg.meeting2.end)
             /\ ClockMinutes(arg.meeting2.start) < ClockMinutes(arg.meeting1.end))

\* back-to-back on a common day: the first ends when the second starts
MeetingsBackToBackWitness ==
    /\ ret.called
    /\ arg.meeting1 = Meeting(<<"M", "W">>, T(10, 10, FALSE), T(11, 25, FALSE))
    /\ arg.meeting2 = Meeting(<<"M", "W", "F">>, T(11, 25, FALSE), T(12, 5, TRUE))
    /\ ret.value = FALSE

\* the meetings list of a course row of the scanner's input
MeetingsOf(course) == course.meetings.items

\* the quadruples (i, j, a, b): positions i < j, meeting a of course i and
\* meeting b of course j, that conflict
ConflictingMeetingPairs(courses) ==
    LET positions == {p \in (1..Len(courses)) \X (1..Len(courses)) : p[1] < p[2]}
        all == UNION {{<<p[1], p[2], a, b>> :
                          a \in 1..Len(MeetingsOf(courses[p[1]])),
                          b \in 1..Len(MeetingsOf(courses[p[2]]))} :
                      p \in positions}
    IN  {q \in all :
            meetingsConflict(MeetingsOf(courses[q[1]])[q[3]],
                             MeetingsOf(courses[q[2]])[q[4]])}

\* the record expected for one such quadruple
ExpectedConflict(courses, q) ==
    [course1 |-> courses[q[1]].subject \o <<" ">> \o courses[q[1]].catalog_nbr
                     \o <<":", " ">> \o courses[q[1]].title,
     course2 |-> courses[q[2]].subject \o <<" ">> \o courses[q[2]].catalog_nbr
                     \o <<":", " ">> \o courses[q[2]].title,
     reason |-> MeetingsOf(courses[q[1]])[q[3]] \o ConflictsWith
                    \o MeetingsOf(courses[q[2]])[q[4]]]

\* C3: findConflicts returns one record per (pair of positions i < j,
\* meeting of course i, meeting of course j) that conflicts, naming both
\* course labels and both meeting strings, and nothing else.
FindConflictsOnePerMeetingPair ==
    ret.called =>
        LET pairs == ConflictingMeetingPairs(arg.courses)
        IN  /\ ~ret.value.threw
            /\ Len(ret.value.conflicts) = Cardinality(pairs)
            /\ \A q \in pairs :
                   Count(ret.value.conflicts, ExpectedConflict(arg.courses, q))
                       = Cardinality({p \in pairs :
                             ExpectedConflict(arg.courses, p)
                                 = ExpectedConflict(arg.courses, q)})

\* two one-meeting courses that overlap on Monday and on Wednesday give one
\* record, and a pair of courses with two overlapping meeting pairs gives two
FindConflictsWitness ==
    /\ ret.called
    /\ \/ /\ arg.courses = <<cCS_LEC, cMATH_LEC>>
          /\ Len(ret.value.conflicts) = 1
       \/ /\ arg.courses = <<cPHYS_LEC, cCHEM_LAB, cCS_LEC>>
          /\ Len(ret.value.conflicts) = 3

\* C10: for two course rows A and B, findConflicts([A, B]) and
\* findConflicts([B, A]) hold the same records once course1/course2 and the
\* two meeting strings of the reason are swapped, for well-formed and
\* malformed meeting strings alike.
FindConflictsSymmetric ==
    (ret.called /\ Len(arg.courses) = 2) =>
        LET A == arg.courses[1]
            B == arg.courses[2]
            swapped == findConflicts(<<B, A>>)
        IN  /\ swapped.threw = ret.value.threw
            /\ Len(swapped.conflicts) = Len(ret.value.conflicts)
            /\ \A a \in 1..Len(MeetingsOf(A)), b \in 1..Len(MeetingsOf(B)) :
                   Count(ret.value.conflicts,
                         ExpectedConflict(<<A, B>>, <<1, 2, a, b>>))
                       = Count(swapped.conflicts,
                               ExpectedConflict(<<B, A>>, <<1, 2, b, a>>))

\* a malformed start time against a well-formed meeting: the pair conflicts,
\* in either order
FindConflictsSymmetricWitness ==
    /\ ret.called
    /\ arg.courses =
           <<ProbeCourse("A-1100-001", <<"A">>,
                 Raw(<<"M", "W", " ">> \o sTBA \o <<"-">>
                         \o TimeStr(T(11, 0, FALSE)))),
             ProbeCourse("B-1100-001", <<"B">>,
                 Meeting(<<"M">>, T(10, 10, FALSE), T(11, 25, FALSE)))>>
    /\ Len(ret.value.conflicts) = 1

(***************************************************************************)
(* Properties of the calendar layout.                                      *)
(***************************************************************************)
\* all blocks of a layout, over the five day buckets
AllBlocks(dayMap) ==
    UNION {{dayMap[DAYS[d]][k] : k \in 1..Len(dayMap[DAYS[d]])} : d \in 1..Len(DAYS)}

\* the label of the (subject, catalog_nbr) key of a course row
KeyLabel(course) == course.subject \o <<" ">> \o course.catalog_nbr

\* the number of distinct keys met in the input up to the first row with
\* this key: 1 for the first distinct key, 2 for the second, ...
KeyRank(courses, label) ==
    LET first == CHOOSE i \in 1..Len(courses) :
                     /\ KeyLabel(courses[i]) = label
                     /\ \A l \in 1..(i - 1) : KeyLabel(courses[l]) # label
    IN  Cardinality({KeyLabel(courses[l]) : l \in 1..first})

\* C8: blocks of course rows with the same (subject, catalog_nbr) key have
\* the same colour, whatever the section or component, and two different
\* keys among the first 7 distinct keys of the input have different colours.
CalendarColorPerCourse ==
    ret.called =>
        \A b1, b2 \in AllBlocks(ret.value.dayMap) :
            /\ b1.course = b2.course => b1.color = b2.color
            /\ (/\ b1.course # b2.course
                /\ KeyRank(arg.courses, b1.course) <= 7
                /\ KeyRank(arg.courses, b2.course) <= 7)
                   => b1.color # b2.color

\* the lecture and the discussion of CS 2110 are apart in an input of eight
\* distinct keys with blocks; both have the first colour, as has the eighth
CalendarColorWitness ==
    /\ ret.called
    /\ arg.courses = <<cCS_LEC, cMATH_LEC, cCS_DIS, cPHYS_LEC, cCHEM_LAB,
                       cART_SEM, cECON_LEC, cHIST_LEC, cBIOG_LAB>>
    /\ \E b1, b2, b3 \in AllBlocks(ret.value.dayMap) :
           /\ b1.course = KeyLabel(cCS_LEC) /\ b1.startTime = TimeStr(T(10, 10, FALSE))
           /\ b2.course = KeyLabel(cCS_DIS) /\ b2.startTime = TimeStr(T(9, 5, FALSE))
           /\ b3.course = KeyLabel(cBIOG_LAB)
           /\ b1.color = COLORS[1] /\ b2.color = COLORS[1] /\ b3.color = COLORS[1]

\* the number of space-delimited tokens of a string
Tokens(str) == Count(str, " ") + 1

\* the time range of a two-token meeting string has no "-"
RangeWithoutDash(str) ==
    /\ Tokens(str) >= 2
    /\ LET sp == CHOOSE i \in 1..Len(str) :
                     str[i] = " " /\ \A l \in 1..(i - 1) : str[l] # " "
           rest == SubSeq(str, sp + 1, Len(str))
           stop == IF \E i \in 1..Len(rest) : rest[i] = " "
                   THEN (CHOOSE i \in 1..Len(rest) :
                            rest[i] = " " /\ \A l \in 1..(i - 1) : rest[l] # " ") - 1
                   ELSE Len(rest)
       IN  \A i \in 1..stop : rest[i] # "-"

\* C11: meetingsConflict never raises, for any two strings; it returns
\* false when either string has fewer than two space-delimited tokens, and
\* false when the time range of either has no "-" (the end time is missing
\* and parsing it throws inside the check).
MeetingsConflictNeverRaises ==
    ret.called =>
        /\ ~ret.raised
        /\ (Tokens(MeetingStr(arg.meeting1)) < 2
                \/ Tokens(MeetingStr(arg.meeting2)) < 2) => ret.value = FALSE
        /\ (RangeWithoutDash(MeetingStr(arg.meeting1))
                \/ RangeWithoutDash(MeetingStr(arg.meeting2))) => ret.value = FALSE

\* the call returned false on "MW 10:10AM" against a meeting of the same
\* days, where parsing the missing end time threw inside the check
MeetingsConflictCaughtWitness ==
    /\ ret.called
    /\ ~ret.raised
    /\ ret.value = FALSE
    /\ RangeWithoutDash(MeetingStr(arg.meeting1))
    /\ WellFormed(arg.meeting2)
    /\ arg.meeting2.days = <<"M", "W">>
    /\ meetingsConflictTry(MeetingStr(arg.meeting1), MeetingStr(arg.meeting2)).threw

\* digits ':' digits followed by AM or PM, somewhere in the string
DigitsOnly(str, a, b) ==
    /\ a <= b
    /\ \A i \in a..b :
           str[i] \in {"0", "1", "2", "3", "4", "5", "6", "7", "8", "9"}

HasTimePattern(str) ==
    \E a, c, k \in 1..Len(str) :
        /\ DigitsOnly(str, a, c - 1)
        /\ str[c] = ":"
        /\ DigitsOnly(str, c + 1, k - 1)
        /\ k + 1 <= Len(str)
        /\ str[k] \in {"A", "P"}
        /\ str[k + 1] = "M"

\* C12: timeToMinutes returns 0 and does not raise for every string that
\* does not match the time pattern.
TimeToMinutesUnmatchedIsZero ==
    (ret.called /\ ~HasTimePattern(arg.timeStr)) =>
        (~ret.raised /\ ret.value = 0)

\* the call returned 0 on "10:10", a time without AM or PM
TimeToMinutesUnmatchedWitness ==
    /\ ret.called
    /\ arg.timeStr = <<"1", "0", ":", "1", "0">>
    /\ ~ret.raised
    /\ ret.value = 0

\* C13: every schedule tool (add, remove, view, check conflicts) resolves to
\* a text or a structured result and never ends its request by raising,
\* whatever the store holds, rows with a null or unparseable meetings value
\* included.
EveryToolResolves ==
    \A r \in Slots : reqs[r].result.kind # "raised"

\* C14: a view of a non-empty schedule whose calendar generation throws, or
\* whose upload returns null, ends with the text schedule as a normal
\* result; the image reference is in the result only when the upload
\* returned a URL.
ViewFallsBackToText ==
    \A r \in Slots :
        (reqs[r].op = "view" /\ reqs[r].pc = "done"
            /\ SeqContains(reqs[r].calls, "layout")) =>
            /\ reqs[r].result.kind \in {"text", "text_image"}
            /\ Len(reqs[r].result.list) > 0
            /\ (reqs[r].calls[Len(reqs[r].calls)] = "layout"
                    \/ SeqContains(reqs[r].calls, "upload-null"))
                   => reqs[r].result.kind = "text"
            /\ reqs[r].result.kind = "text_image"
                   => SeqContains(reqs[r].calls, "upload-url")

\* one view ended with the text after the calendar generation threw on the
\* meeting without an end time of ART 1100, another after the upload
\* returned null
ViewFallsBackWitness ==
    \E r1, r2 \in Slots :
        /\ reqs[r1].op = "view" /\ reqs[r1].pc = "done"
        /\ reqs[r1].calls = <<"select", "text", "layout">>
        /\ reqs[r1].result.kind = "text"
        /\ \E i \in 1..Len(reqs[r1].result.list) :
               reqs[r1].result.list[i].course_id = cART_SEM.id
        /\ reqs[r2].op = "view" /\ reqs[r2].pc = "done"
        /\ reqs[r2].calls = <<"select", "text", "layout", "upload-null">>
        /\ reqs[r2].result.kind = "text"

\* the number of courses in the schedule of a user
CoursesIn(rows, userId) ==
    Cardinality({i \in 1..Len(rows) :
                    rows[i].user_id = userId /\ rows[i].course_id \in CatalogIds})

\* C15: a view by a user whose schedule is empty returns the guidance text
\* and runs neither the calendar layout nor the upload in that request.
ViewEmptyReturnsGuidance ==
    [][\A r \in Slots :
           /\ (Lists(r) /\ CoursesIn(schedule, reqs'[r].user) = 0) =>
                  /\ reqs'[r].pc = "done"
                  /\ reqs'[r].result = Result("empty", <<>>)
                  /\ reqs'[r].calls = <<"select">>
           /\ reqs[r].result.kind = "empty" => reqs'[r] = reqs[r]]_vars

\* a view of an empty schedule has ended, next to a later request
ViewEmptyWitness ==
    /\ reqs[1].op = "view"
    /\ reqs[1].pc = "done"
    /\ reqs[1].result.kind = "empty"
    /\ reqs[1].calls = <<"select">>
    /\ reqs[2].pc = "done"

Checks(r) == reqs[r].pc = "idle" /\ reqs'[r].op = "check"

\* C16: checkScheduleConflicts runs the conflict scan only when the schedule
\* of the user holds two courses or more; with none or one it returns the
\* guidance message and findConflicts is not called.
CheckScansFromTwoCourses ==
    [][\A r \in Slots :
           Checks(r) =>
               /\ CoursesIn(schedule, reqs'[r].user) < 2 =>
                      /\ reqs'[r].result = Result("need_two", <<>>)
                      /\ reqs'[r].calls = <<"select">>
               /\ SeqContains(reqs'[r].calls, "scan") =>
                      CoursesIn(schedule, reqs'[r].user) >= 2]_vars

\* a check on a schedule of one course returned the guidance message, and
\* a check on a schedule of three courses ran the scan
CheckScansWitness ==
    \E r1, r2 \in Slots :
        /\ reqs[r1].op = "check" /\ reqs[r2].op = "check"
        /\ CoursesIn(schedule, reqs[r1].user) = 1
        /\ reqs[r1].result.kind = "need_two"
        /\ CoursesIn(schedule, reqs[r2].user) = 3
        /\ reqs[r2].calls = <<"select", "scan">>
        /\ reqs[r2].result.kind = "conflicts"

\* the blocks one meeting string gives the bucket of weekday d: one per
\* occurrence of d in the first token, none without a second token
ExpectedOfMeeting(courses, course, meeting, d) ==
    IF Tokens(meeting) < 2 THEN <<>>
    ELSE LET tokens == split(meeting, " ")
             times == split(tokens[2], "-")
         IN  [n \in 1..Count(tokens[1], d) |->
                 [course |-> KeyLabel(course),
                  title |-> course.title,
                  startTime |-> times[1],
                  endDefined |-> Len(times) >= 2,
                  endTime |-> IF Len(times) >= 2 THEN times[2] ELSE <<>>,
                  color |-> COLORS[((KeyRank(courses, KeyLabel(course)) - 1) % 7) + 1]]]

RECURSIVE ExpectedOfCourse(_, _, _, _)
ExpectedOfCourse(courses, course, a, d) ==
    IF a > Len(course.meetings.items) THEN <<>>
    ELSE ExpectedOfMeeting(courses, course, course.meetings.items[a], d)
             \o ExpectedOfCourse(courses, course, a + 1, d)

RECURSIVE ExpectedBucket(_, _, _)
ExpectedBucket(courses, i, d) ==
    IF i > Len(courses) THEN <<>>
    ELSE ExpectedOfCourse(courses, courses[i], 1, d)
             \o ExpectedBucket(courses, i + 1, d)

\* C18: the bucket of each weekday d of M, T, W, R, F holds one block per
\* occurrence of d in the day pattern of each meeting of two tokens or
\* more, in the order of the courses and then of their meetings; a meeting
\* of fewer tokens gives no block; each block carries the label, title,
\* start, end and colour of its course.
CalendarBucketsPerDay ==
    (ret.called /\ ~ret.value.threw) =>
        /\ DOMAIN ret.value.dayMap = {"M", "T", "W", "R", "F"}
        /\ \A d \in {"M", "T", "W", "R", "F"} :
               ret.value.dayMap[d] = ExpectedBucket(arg.courses, 1, d)

\* the Monday bucket of MATH 1920, ART 1100 and NAVS 1100: one block of
\* MATH, two of ART (none for its TBA meeting) and two of NAVS, whose
\* pattern names Monday twice
CalendarBucketsWitness ==
    /\ ret.called
    /\ ~ret.value.threw
    /\ arg.courses = <<cMATH_LEC, cART_SEM, cNAVS_LAB>>
    /\ Len(ret.value.dayMap["M"]) = 5
    /\ ret.value.dayMap["M"][1].course = KeyLabel(cMATH_LEC)
    /\ ret.value.dayMap["M"][2].course = KeyLabel(cART_SEM)
    /\ ~ret.value.dayMap["M"][2].endDefined
    /\ ret.value.dayMap["M"][3].startTime = sTBA
    /\ ret.value.dayMap["M"][4] = ret.value.dayMap["M"][5]
    /\ ret.value.dayMap["M"][5].course = KeyLabel(cNAVS_LAB)
    /\ Len(ret.value.dayMap["T"]) = 0

\* the response of request r carries a warning that names the course
WarnsOf(r, course) ==
    /\ reqs[r].result.kind = "added"
    /\ \E i \in 1..Len(reqs[r].result.list) :
           reqs[r].result.list[i].course = KeyLabel(course)

\* requests r1 and r2 are finished adds by one user of CS 2110 (MW
\* 10:10AM-11:25AM) and MATH 1920 (MW 11:15AM-12:05PM), r1 started first,
\* and no remove has run since r1 started
TwoConflictingAdds(r1, r2) ==
    /\ r1 < r2
    /\ reqs[r1].op = "add" /\ reqs[r1].pc = "done"
    /\ reqs[r2].op = "add" /\ reqs[r2].pc = "done"
    /\ reqs[r1].user = reqs[r2].user
    /\ {reqs[r1].courseId, reqs[r2].courseId} = {cCS_LEC.id, cMATH_LEC.id}
    /\ \A r3 \in Slots : r3 > r1 => reqs[r3].op # "remove"

\* C19: when two adds by one user, of two courses whose meetings conflict,
\* run concurrently under any interleaving of their store statements and
\* no remove runs with them, both entries are in the schedule in the end
\* and at least one of the two responses warns of the other course.
ConcurrentAddsWarnOnce ==
    \A r1, r2 \in Slots :
        TwoConflictingAdds(r1, r2) =>
            /\ Len(EntriesFor(schedule, reqs[r1].user, cCS_LEC.id)) = 1
            /\ Len(EntriesFor(schedule, reqs[r1].user, cMATH_LEC.id)) = 1
            /\ \/ WarnsOf(r1, reqs[r2].newCourse)
               \/ WarnsOf(r2, reqs[r1].newCourse)

\* C20 as stated: within one add the conflict scan reads the schedule
\* before the schedule entry is written (store lookup, conflict scan, store
\* mutation).
AddScansBeforeUpsert ==
    [][\A r \in Slots :
           Upserts(r) => SeqContains(reqs[r].calls, "scan")]_vars

\* C20 as amended: within one add the calls run in the order store lookup,
\* store mutation, conflict scan: the lookup writes nothing, the upsert
\* follows the lookup and writes the entry before any scan, and the scan
\* follows the upsert and writes nothing.
AddUpsertsBeforeScan ==
    [][\A r \in Slots :
           /\ LooksUp(r) =>
                  /\ reqs'[r].calls = <<"lookup">>
                  /\ schedule' = schedule
           /\ Upserts(r) =>
                  /\ reqs[r].calls = <<"lookup">>
                  /\ reqs'[r].calls = <<"lookup", "upsert">>
                  /\ Len(EntriesFor(schedule', reqs[r].user, reqs[r].courseId)) = 1
           /\ Scans(r) =>
                  /\ reqs[r].calls = <<"lookup", "upsert">>
                  /\ reqs'[r].calls = <<"lookup", "upsert", "select", "scan">>
                  /\ schedule' = schedule]_vars

\* an add of MATH 1920 to a schedule that holds CS 2110 has run its three
\* calls in this order and returned the warning
AddOrderWitness ==
    \E r \in Slots :
        /\ reqs[r].op = "add" /\ reqs[r].pc = "done"
        /\ reqs[r].courseId = cMATH_LEC.id
        /\ reqs[r].upserted = "inserted"
        /\ reqs[r].calls = <<"lookup", "upsert", "select", "scan">>
        /\ WarnsOf(r, cCS_LEC)

\* the courses of the other entries of the user, in course id order
RestOfSchedule(rows, userId, courseId) ==
    LET others == SelectSeq(CourseIdOrder, LAMBDA id :
                      /\ id # courseId
                      /\ \E i \in 1..Len(rows) :
                             rows[i].user_id = userId /\ rows[i].course_id = id)
    IN  [i \in 1..Len(others) |-> CHOOSE c \in catalog : c.id = others[i]]

RECURSIVE PairRecords(_, _, _)
\* the records of the scanner for the pairs (course, rest[k]), each with the
\* course x of its pair
PairRecords(course, rest, k) ==
    IF k > Len(rest) THEN <<>>
    ELSE LET found == findConflicts(<<course, rest[k]>>).conflicts
         IN  [i \in 1..Len(found) |-> [x |-> rest[k], record |-> found[i]]]
                 \o PairRecords(course, rest, k + 1)

\* the warning names the course and the two meetings of the record
WarningOfRecord(warning, course, paired) ==
    /\ paired.x.id # course.id
    /\ paired.record.course1 = courseLabel(course)
    /\ paired.record.course2 = courseLabel(paired.x)
    /\ warning.course = courseKey(paired.x)
    /\ paired.record.reason =
           warning.newMeeting \o ConflictsWith \o warning.existingMeeting

\* C21: the warnings of a successful add of course c are, one for one and in
\* order, the records the scanner gives for the pairs (c, x), x a course of
\* the other entries of the user: one per conflicting pair of meetings, none
\* pairing c with itself, also when the entry of c was already there.
AddWarningsAreScannerRecords ==
    [][\A r \in Slots :
          (Scans(r) /\ reqs'[r].result.kind = "added") =>
              LET expected == PairRecords(reqs[r].newCourse,
                                  RestOfSchedule(schedule, reqs[r].user,
                                                 reqs[r].courseId), 1)
                  warnings == reqs'[r].result.list
              IN  /\ Len(warnings) = Len(expected)
                  /\ \A i \in 1..Len(warnings) :
                         WarningOfRecord(warnings[i], reqs[r].newCourse,
                                         expected[i])]_vars

\* u2 has added the lecture of CS 2110 again, beside its discussion and
\* MATH 1920: the one warning is the one for the lecture of MATH 1920
AddWarningsWitness ==
    \E r \in Slots :
        /\ reqs[r].op = "add" /\ reqs[r].pc = "done"
        /\ reqs[r].user = "u2"
        /\ reqs[r].courseId = cCS_LEC.id
        /\ reqs[r].upserted = "updated"
        /\ reqs[r].result.kind = "added"
        /\ Len(reqs[r].result.list) = 1
        /\ reqs[r].result.list[1].course = courseKey(cMATH_LEC)
        /\ Len(EntriesFor(schedule, "u2", cCS_LEC.id)) = 1
        /\ Len(EntriesFor(schedule, "u2", cCS_DIS.id)) = 1

\* C22: an add that has returned an error message, the not-found message or
\* the message of a failure caught while adding, has left the schedule as it
\* found it: no statement of the request has inserted an entry.
AddErrorLeavesSchedule ==
    \A r \in Slots :
        (/\ reqs[r].op = "add"
         /\ reqs[r].pc = "done"
         /\ reqs[r].result.kind \in {"not_found", "error"})
            => reqs[r].upserted # "inserted"

\* the whole string is H:MM or HH:MM, any digits, followed by AM or PM
ClockForm(str) ==
    /\ Len(str) \in {6, 7}
    /\ DigitsOnly(str, 1, Len(str) - 5)
    /\ str[Len(str) - 4] = ":"
    /\ DigitsOnly(str, Len(str) - 3, Len(str) - 2)
    /\ str[Len(str) - 1] \in {"A", "P"}
    /\ str[Len(str)] = "M"

\* the hour mod 12, 12 more for PM, in minutes with the minutes added
Mod12Minutes(str) ==
    LET h == parseInt(SubSeq(str, 1, Len(str) - 5))
        m == parseInt(SubSeq(str, Len(str) - 3, Len(str) - 2))
    IN  ((h % 12) + (IF str[Len(str) - 1] = "P" THEN 12 ELSE 0)) * 60 + m

\* C23: for every string H:MM or HH:MM of any digits followed by AM or PM,
\* timeToMinutes returns an integer of 0..1439, with the hour taken mod 12
\* before 12 is added for PM.
TimeToMinutesWithinDay ==
    (ret.called /\ ClockForm(arg.timeStr)) =>
        /\ ret.value \in 0..1439
        /\ ret.value = Mod12Minutes(arg.timeStr)

\* some bucket of the layout holds a block of the first course and a block
\* of the second whose minute intervals overlap
LayoutOverlap(blocks) ==
    \E d \in DOMAIN blocks :
        \E i, j \in 1..Len(blocks[d]) :
            /\ blocks[d][i].course = calendarKey(AgreeCourse1(arg.meeting1))
            /\ blocks[d][j].course = calendarKey(AgreeCourse2(arg.meeting2))
            /\ ~blocks[d][i].threw /\ ~blocks[d][j].threw
            /\ blocks[d][i].startMin < blocks[d][j].endMin
            /\ blocks[d][j].startMin < blocks[d][i].endMin

\* the characters of a string before its first space
DaysToken(str) ==
    IF \E i \in 1..Len(str) : str[i] = " "
    THEN SubSeq(str, 1, (CHOOSE i \in 1..Len(str) :
                            str[i] = " " /\ \A l \in 1..(i - 1) : str[l] # " ") - 1)
    ELSE str

\* the day patterns of the two strings share a character that is not one
\* of M, T, W, R, F
ShareOffWeekDay(str1, str2) ==
    \E i \in 1..Len(DaysToken(str1)) : \E j \in 1..Len(DaysToken(str2)) :
        /\ DaysToken(str1)[i] = DaysToken(str2)[j]
        /\ DaysToken(str1)[i] \notin {"M", "T", "W", "R", "F"}

\* C24 as stated: for any two meeting strings of two tokens or more,
\* meetingsConflict is true exactly when some weekday bucket of the layout
\* holds a block of each meeting with overlapping minute intervals.
ConflictIffLayoutOverlap ==
    (/\ ret.called
     /\ Tokens(MeetingStr(arg.meeting1)) >= 2
     /\ Tokens(MeetingStr(arg.meeting2)) >= 2)
        => (ret.value <=> LayoutOverlap(ret.blocks))

\* C24, amended: the same for any two meeting strings of two tokens or more
\* whose day patterns share no character other than M, T, W, R, F.
ConflictIffLayoutOverlapOnWeekdays ==
    (/\ ret.called
     /\ Tokens(MeetingStr(arg.meeting1)) >= 2
     /\ Tokens(MeetingStr(arg.meeting2)) >= 2
     /\ ~ShareOffWeekDay(MeetingStr(arg.meeting1), MeetingStr(arg.meeting2)))
        => (ret.value <=> LayoutOverlap(ret.blocks))

\* "MW 09:05AM-11:25AM" and "WF 10:10AM-12:05PM" conflict, and the bucket
\* of Wednesday holds a block of each, 545-685 and 610-725
ConflictAndLayoutWitness ==
    /\ ret.called
    /\ arg.meeting1 = Meeting(<<"M", "W">>, T(9, 5, FALSE), T(11, 25, FALSE))
    /\ arg.meeting2 = Meeting(<<"W", "F">>, T(10, 10, FALSE), T(12, 5, TRUE))
    /\ ret.value = TRUE
    /\ Len(ret.blocks["W"]) = 2
    /\ Len(ret.blocks["M"]) = 1
    /\ LayoutOverlap(ret.blocks)

\* C25: the palette has 7 colours, and the blocks of the k-th distinct
\* (subject, catalog_nbr) key of the input, k counted from 0 in input order,
\* have palette entry k mod 7: the colour follows the place of the key in
\* the input, and the 8th distinct key has the colour of the 1st.
CalendarColorByInputOrder ==
    ret.called =>
        /\ Len(COLORS) = 7
        /\ \A b \in AllBlocks(ret.value.dayMap) :
               b.color = COLORS[((KeyRank(arg.courses, b.course) - 1) % 7) + 1]

\* MATH 1920 comes first and CS 2110 second: MATH 1920 has the first
\* colour, CS 2110 the second, the seventh key the seventh, and the eighth
\* key, BIOG 1140, the first again
CalendarColorOrderWitness ==
    /\ ret.called
    /\ arg.courses = <<cMATH_LEC, cCS_LEC, cCS_DIS, cPHYS_LEC, cCHEM_LAB,
                       cART_SEM, cECON_LEC, cHIST_LEC, cBIOG_LAB>>
    /\ \E b1, b2, b7, b8 \in AllBlocks(ret.value.dayMap) :
           /\ b1.course = KeyLabel(cMATH_LEC) /\ b1.color = COLORS[1]
           /\ b2.course = KeyLabel(cCS_LEC) /\ b2.color = COLORS[2]
           /\ b7.course = KeyLabel(cHIST_LEC) /\ b7.color = COLORS[7]
           /\ b8.course = KeyLabel(cBIOG_LAB) /\ b8.color = COLORS[1]

\* the rows other than the entry (userId, courseId), in their order
EntriesBeside(rows, userId, courseId) ==
    SelectSeq(rows, LAMBDA row :
        ~(row.user_id = userId /\ row.course_id = courseId))

\* C26: every step of an add of courseId by user u leaves the catalog and
\* every entry other than (u, courseId) as they were, the entries of the
\* sibling sections of the course and of the other users included, and
\* never deletes the entry (u, courseId).
AddTouchesOnlyItsEntry ==
    [][\A r \in Slots :
          (LooksUp(r) \/ Upserts(r) \/ Scans(r)) =>
              /\ catalog' = catalog
              /\ EntriesBeside(schedule', reqs'[r].user, reqs'[r].courseId)
                     = EntriesBeside(schedule, reqs'[r].user, reqs'[r].courseId)
              /\ Len(EntriesFor(schedule', reqs'[r].user, reqs'[r].courseId))
                     >= Len(EntriesFor(schedule, reqs'[r].user,
                                       reqs'[r].courseId))]_vars

\* u1 has added the lecture of MATH 1920, which u1 and u2 had: the notes of
\* the entry of u1 are those of the add, the entry of u2 keeps its notes,
\* and u1 has no entry for a section of CS 2110
AddTouchesOnlyItsEntryWitness ==
    \E r \in Slots :
        /\ reqs[r].op = "add" /\ reqs[r].pc = "done"
        /\ reqs[r].user = "u1"
        /\ reqs[r].courseId = cMATH_LEC.id
        /\ reqs[r].notes = ""
        /\ reqs[r].upserted = "updated"
        /\ started = 1
        /\ schedule = [Schedule0 EXCEPT ![1].notes = SqlNull]
        /\ schedule[3] = ScheduleRow("u2", cMATH_LEC.id, "n1")
        /\ catalog = Catalog0

Uploads(r) == reqs[r].pc = "upload" /\ reqs'[r].pc = "done"

\* C27: no step of a view or of a check changes a schedule entry or a
\* catalog record; a view and a check select the schedule once, in their
\* first step, and the upload step of a view selects nothing and leaves
\* the entries of the response as the selection gave them.
ViewAndCheckReadOnce ==
    [][\A r \in Slots :
          /\ (Lists(r) \/ Uploads(r) \/ Checks(r)) =>
                 /\ schedule' = schedule
                 /\ catalog' = catalog
                 /\ Count(reqs'[r].calls, "select") = 1
                 /\ ~SeqContains(reqs'[r].calls, "upsert")
                 /\ ~SeqContains(reqs'[r].calls, "delete")
          /\ (Lists(r) \/ Checks(r)) => reqs'[r].calls[1] = "select"
          /\ Uploads(r) => reqs'[r].result.list = reqs[r].result.list]_vars

\* u2 listed three entries, a remove of CS 2110 by u2 ran while the upload
\* was pending, and the view ended with the three entries it had selected
ViewSnapshotWitness ==
    \E r1, r2 \in Slots :
        /\ reqs[r1].op = "view" /\ reqs[r1].pc = "done"
        /\ reqs[r1].user = "u2"
        /\ reqs[r1].result.kind = "text_image"
        /\ Len(reqs[r1].result.list) = 3
        /\ Count(reqs[r1].calls, "select") = 1
        /\ reqs[r2].op = "remove" /\ reqs[r2].user = "u2"
        /\ reqs[r2].result = Result("removed", <<2>>)
        /\ CoursesIn(schedule, "u2") = 1

\* the string has a time range "<start>-<end>" whose start or end holds no
\* time, so that timeToMinutes gives 0 for it
UnparseableTime(str) ==
    /\ Tokens(str) >= 2
    /\ Len(split(split(str, " ")[2], "-")) >= 2
    /\ \/ ~HasTimePattern(split(split(str, " ")[2], "-")[1])
       \/ ~HasTimePattern(split(split(str, " ")[2], "-")[2])

\* the day patterns of the two strings have a letter in common
ShareDayLetter(str1, str2) ==
    \E i \in 1..Len(DaysToken(str1)) : \E j \in 1..Len(DaysToken(str2)) :
        DaysToken(str1)[i] = DaysToken(str2)[j]

\* C28: meetingsConflict is false for a meeting whose start or end time is
\* unparseable against a well-formed meeting with a day in common,
\* whichever of the two comes first.
UnparseableTimeNeverConflicts ==
    (/\ ret.called
     /\ ShareDayLetter(MeetingStr(arg.meeting1), MeetingStr(arg.meeting2))
     /\ \/ UnparseableTime(MeetingStr(arg.meeting1)) /\ WellFormed(arg.meeting2)
        \/ WellFormed(arg.meeting1) /\ UnparseableTime(MeetingStr(arg.meeting2)))
        => ret.value = FALSE

\* the positions of the entries of userId for a section of the course of
\* the key
ScopeOf(rows, userId, key) ==
    {i \in 1..Len(rows) : InRemovalScope(rows[i], userId, key)}

\* C29: once a remove of SUBJECT-CATALOGNBR by user u has run, whatever
\* the schedule held, u has no entry for a section of that course; and a
\* remove that finds no such entry, as a repeated remove does, reports that
\* the course was not in the schedule and changes nothing.
RemoveTwiceIsRemoveOnce ==
    [][\A r \in Slots :
          Removes(r) =>
              /\ ScopeOf(schedule', reqs'[r].user, reqs'[r].key) = {}
              /\ ScopeOf(schedule, reqs'[r].user, reqs'[r].key) = {}
                     => /\ schedule' = schedule
                        /\ reqs'[r].result = Result("not_in_schedule", <<0>>)
              /\ ScopeOf(schedule, reqs'[r].user, reqs'[r].key) # {}
                     => reqs'[r].result.kind = "removed"]_vars

\* u2 has removed CS-2110, two sections, and then CS-2110 again: the second
\* remove reported that the course was not in the schedule
RemoveTwiceWitness ==
    /\ reqs[1].op = "remove" /\ reqs[2].op = "remove"
    /\ reqs[1].user = "u2" /\ reqs[2].user = "u2"
    /\ reqs[1].key = sCS \o <<"-">> \o n2110
    /\ reqs[2].key = reqs[1].key
    /\ reqs[1].result = Result("removed", <<2>>)
    /\ reqs[2].result = Result("not_in_schedule", <<0>>)
    /\ schedule = <<ScheduleRow("u1", cMATH_LEC.id, SqlNull),
                    ScheduleRow("u2", cMATH_LEC.id, "n1")>>
====
